---------------------------- MODULE Spec2Model ----------------------------
(***************************************************************************)
(* ol-mapbox-style: the style function built from a Mapbox style          *)
(* document (stylefunction.js).  The module-level caches (functionCache,  *)
(* filterCache, zoomObj), the closure state of every constructed style    *)
(* function, the OpenLayers layer it is installed on and the features it  *)
(* is called with are the state; construction, the sprite image's onload  *)
(* callback and a call of the style function are the actions.             *)
(***************************************************************************)
EXTENDS Integers, Sequences, FiniteSets, TLC

VARIABLES
  functionCache,  \* layer id -> (property -> compiled evaluator)
  filterCache,    \* layer id -> compiled filter
  zoomObj,        \* the shared {zoom: ...} object handed to every evaluator
  fontMap,        \* font stack, as text -> the font chosen for it
  closure,        \* olLayer -> the state captured by the style function built for it
  olLayer,        \* olLayer -> its style, its mapbox-* properties, its change events
  featureStyleIds,\* feature -> feature.styleIds
  lastOp          \* history: the last operation, its arguments and its outcome

vars == <<functionCache, filterCache, zoomObj, fontMap, closure, olLayer, featureStyleIds, lastOp>>

---------------------------------------------------------------------------
(* JavaScript values.  Every value carries its type tag, so that values of *)
(* different types are distinct without ever being compared field by      *)
(* field.                                                                  *)

Undef == [t |-> "undefined"]
Null == [t |-> "null"]
Num(n) == [t |-> "number", n |-> n]
Str(s) == [t |-> "string", s |-> s]
Bool(b) == [t |-> "boolean", b |-> b]
Arr(items) == [t |-> "array", items |-> items]

\* const x = v; then the statements after it, which see the value of x:
\* Bind([x \in {v} |-> rest]) is rest with x standing for the value of v.
Bind(f) == CHOOSE result \in UNION {{g[x] : x \in DOMAIN g} : g \in {f}} : TRUE

\* JavaScript truthiness of a model value.
Truthy(v) ==
  CASE v.t = "undefined" -> FALSE
    [] v.t = "null" -> FALSE
    [] v.t = "number" -> v.n # 0
    [] v.t = "string" -> v.s # ""
    [] v.t = "boolean" -> v.b
    [] OTHER -> TRUE

\* Fractional numbers (opacities, alpha, fractional zoom) are kept as integers
\* in hundredths.

\* The key a value has when it indexes an object (obj[undefined] is obj["undefined"]).
PropertyKey(v) == IF v.t = "string" THEN v.s ELSE "undefined"

\* The characters of the strings the model's documents and selectors use.
Chars(s) ==
  CASE s = "osm" -> <<"o", "s", "m">>
    [] s = "os" -> <<"o", "s">>
    [] s = "land" -> <<"l", "a", "n", "d">>
    [] s = "water" -> <<"w", "a", "t", "e", "r">>
    [] s = "road" -> <<"r", "o", "a", "d">>
    [] s = "rim" -> <<"r", "i", "m">>
    [] s = "shore" -> <<"s", "h", "o", "r", "e">>
    [] s = "hidden" -> <<"h", "i", "d", "d", "e", "n">>
    [] s = "geo" -> <<"g", "e", "o">>
    [] s = "park" -> <<"p", "a", "r", "k">>
    [] s = "poly" -> <<"p", "o", "l", "y">>
    [] s = "line" -> <<"l", "i", "n", "e">>
    [] s = "{icon}" -> <<"{", "i", "c", "o", "n", "}">>
    [] s = "{kind}" -> <<"{", "k", "i", "n", "d", "}">>
    [] s = "icon" -> <<"i", "c", "o", "n">>
    [] s = "kind" -> <<"k", "i", "n", "d">>
    [] s = "w" -> <<"w">>
    [] s = "x" -> <<"x">>
    [] s = "a" -> <<"a">>
    [] s = "poi" -> <<"p", "o", "i">>
    [] s = "track" -> <<"t", "r", "a", "c", "k">>
    [] s = "trench" -> <<"t", "r", "e", "n", "c", "h">>
    [] s = "flag" -> <<"f", "l", "a", "g">>
    [] s = "lost" -> <<"l", "o", "s", "t">>
    [] s = "pond" -> <<"p", "o", "n", "d">>
    [] s = "edge" -> <<"e", "d", "g", "e">>
    [] s = "meadow" -> <<"m", "e", "a", "d", "o", "w">>
    [] s = "ditch" -> <<"d", "i", "t", "c", "h">>
    [] s = "hatch" -> <<"h", "a", "t", "c", "h">>
    [] s = "marker" -> <<"m", "a", "r", "k", "e", "r">>
    [] s = "rail" -> <<"r", "a", "i", "l">>
    [] s = "name" -> <<"n", "a", "m", "e">>
    [] s = "dot" -> <<"d", "o", "t">>
    [] s = "ring" -> <<"r", "i", "n", "g">>
    [] s = "pin" -> <<"p", "i", "n">>
    [] s = "title" -> <<"t", "i", "t", "l", "e">>
    [] s = "note" -> <<"n", "o", "t", "e">>
    [] s = "a.1" -> <<"a", ".", "1">>
    [] s = "{" -> <<"{">>
    [] s = "map" -> <<"m", "a", "p">>
    [] s = "viewport" -> <<"v", "i", "e", "w", "p", "o", "r", "t">>
    [] s = "center" -> <<"c", "e", "n", "t", "e", "r">>
    [] s = "left" -> <<"l", "e", "f", "t">>
    [] s = "right" -> <<"r", "i", "g", "h", "t">>
    [] s = "top" -> <<"t", "o", "p">>
    [] s = "bottom" -> <<"b", "o", "t", "t", "o", "m">>
    [] s = "top-left" -> <<"t", "o", "p", "-", "l", "e", "f", "t">>
    [] s = "top-right" -> <<"t", "o", "p", "-", "r", "i", "g", "h", "t">>
    [] s = "bottom-left" -> <<"b", "o", "t", "t", "o", "m", "-", "l", "e", "f", "t">>
    [] s = "bottom-right" -> <<"b", "o", "t", "t", "o", "m", "-", "r", "i", "g", "h", "t">>
    [] s = "Sans" -> <<"S", "a", "n", "s">>
    [] s = "Serif" -> <<"S", "e", "r", "i", "f">>
    [] s = "Mono" -> <<"M", "o", "n", "o">>
    [] s = "undefined" -> <<"u", "n", "d", "e", "f", "i", "n", "e", "d">>
    [] s = "null" -> <<"n", "u", "l", "l">>
    [] s = "" -> << >>

\* String.prototype.indexOf: the 0-based position of the first occurrence, or -1.
StringIndexOf(hay, needle) ==
  LET h == Chars(hay)
      n == Chars(needle)
      hits == {i \in 1..(Len(h) - Len(n) + 1) : SubSeq(h, i, i + Len(n) - 1) = n}
  IN IF hits = {} THEN -1 ELSE (CHOOSE i \in hits : \A j \in hits : i <= j) - 1

\* Array.prototype.indexOf on a sequence: 0-based position, or -1.
ArrayIndexOf(arr, x) ==
  LET hits == {i \in 1..Len(arr) : arr[i] = x}
  IN IF hits = {} THEN -1 ELSE (CHOOSE i \in hits : \A j \in hits : i <= j) - 1

\* The decimal digits of a natural number.
RECURSIVE NatChars(_)
NatChars(n) ==
  IF n < 10
  THEN <<<<"0", "1", "2", "3", "4", "5", "6", "7", "8", "9">>[n + 1]>>
  ELSE NatChars(n \div 10) \o NatChars(n % 10)

\* Number.prototype.toString of a number kept in hundredths: 150 is "1.5",
\* 500 is "5", 5 is "0.05", -25 is "-0.25".
NumberChars(hundredths) ==
  LET magnitude == IF hundredths < 0 THEN -hundredths ELSE hundredths
      fraction == magnitude % 100
  IN (IF hundredths < 0 THEN <<"-">> ELSE << >>)
     \o NatChars(magnitude \div 100)
     \o (IF fraction = 0 THEN << >>
         ELSE IF fraction % 10 = 0 THEN <<".">> \o NatChars(fraction \div 10)
         ELSE <<".">> \o NatChars(fraction \div 10) \o NatChars(fraction % 10))

\* Array.prototype.join(',') of the strings of the elements.
RECURSIVE JoinChars(_)
JoinChars(parts) ==
  IF Len(parts) = 0 THEN << >>
  ELSE IF Len(parts) = 1 THEN parts[1]
  ELSE parts[1] \o <<",">> \o JoinChars(Tail(parts))

---------------------------------------------------------------------------
(* @mapbox/mapbox-gl-style-spec as the style function uses it: Color, the  *)
(* property specifications (latest), expressions and filters.             *)

\* Color.parse: premultiplied channels; a in hundredths, r, g, b as the
\* 0..255 channel times a.  An unparsable string gives undefined.
ColorParse(v) ==
  IF v.t # "string" THEN Undef
  ELSE CASE v.s = "red" -> [t |-> "color", r |-> 25500, g |-> 0, b |-> 0, a |-> 100]
         [] v.s = "blue" -> [t |-> "color", r |-> 0, g |-> 0, b |-> 25500, a |-> 100]
         [] v.s = "#000000" -> [t |-> "color", r |-> 0, g |-> 0, b |-> 0, a |-> 100]
         [] v.s = "rgba(0,255,0,0.5)" -> [t |-> "color", r |-> 0, g |-> 12750, b |-> 0, a |-> 50]
         [] v.s = "transparent" -> [t |-> "color", r |-> 0, g |-> 0, b |-> 0, a |-> 0]
         [] v.s = "rgba(0,0,0,0)" -> [t |-> "color", r |-> 0, g |-> 0, b |-> 0, a |-> 0]
         [] OTHER -> Undef

\* Color.prototype.toString: "rgba(r,g,b,a)" with the channels unpremultiplied.
ColorChars(color) ==
  LET channel(x) == IF color.a = 0 THEN 0 ELSE x \div color.a
  IN <<"r", "g", "b", "a", "(">> \o NatChars(channel(color.r)) \o <<",">>
     \o NatChars(channel(color.g)) \o <<",">> \o NatChars(channel(color.b)) \o <<",">>
     \o NumberChars(color.a) \o <<")">>

\* The string a value becomes when it is concatenated to a string: an array
\* of numbers is its elements joined with commas.
ToChars(v) ==
  CASE v.t = "undefined" -> Chars("undefined")
    [] v.t = "null" -> Chars("null")
    [] v.t = "number" -> NumberChars(v.n)
    [] v.t = "string" -> Chars(v.s)
    [] v.t = "array" -> JoinChars([i \in 1..Len(v.items) |-> NumberChars(v.items[i])])
    [] v.t = "color" -> ColorChars(v)

\* spec[layoutOrPaint + "_" + layerType][property]: the type and the default
\* of a property, undefined for a property the layer type does not have.
\* Symbol and circle numbers are kept in hundredths.
PropertySpec(layoutOrPaint, layerType, property) ==
  LET P(type, dflt) == [t |-> "spec", type |-> type, default |-> dflt]
      group == <<layoutOrPaint, layerType>>
  IN CASE group = <<"paint", "fill">> ->
            (CASE property = "fill-antialias" -> P("boolean", Bool(TRUE))
               [] property = "fill-opacity" -> P("number", Num(100))
               [] property = "fill-color" -> P("color", Str("#000000"))
               [] property = "fill-outline-color" -> P("color", Undef)
               [] property = "fill-pattern" -> P("string", Undef)
               [] OTHER -> Undef)
       [] group = <<"paint", "line">> ->
            (CASE property = "line-opacity" -> P("number", Num(100))
               [] property = "line-color" -> P("color", Str("#000000"))
               [] property = "line-width" -> P("number", Num(1))
               [] property = "line-dasharray" -> P("array", Undef)
               [] property = "line-pattern" -> P("string", Undef)
               [] OTHER -> Undef)
       [] group = <<"layout", "line">> ->
            (CASE property = "line-cap" -> P("enum", Str("butt"))
               [] property = "line-join" -> P("enum", Str("miter"))
               [] property = "line-miter-limit" -> P("number", Num(2))
               [] OTHER -> Undef)
       [] group = <<"layout", "symbol">> ->
            (CASE property = "symbol-placement" -> P("enum", Str("point"))
               [] property = "icon-image" -> P("string", Undef)
               [] property = "icon-size" -> P("number", Num(100))
               [] property = "icon-anchor" -> P("enum", Str("center"))
               [] property = "icon-offset" -> P("array", Arr(<<0, 0>>))
               [] property = "icon-rotate" -> P("number", Num(0))
               [] property = "text-field" -> P("string", Str(""))
               [] property = "text-font" -> P("array", Arr(<<"Sans", "Serif">>))
               [] property = "text-size" -> P("number", Num(1600))
               [] property = "text-line-height" -> P("number", Num(120))
               [] property = "text-max-width" -> P("number", Num(1000))
               [] property = "text-rotate" -> P("number", Num(0))
               [] property = "text-anchor" -> P("enum", Str("center"))
               [] property = "text-offset" -> P("array", Arr(<<0, 0>>))
               [] property = "text-max-angle" -> P("number", Num(4500))
               [] OTHER -> Undef)
       [] group = <<"paint", "symbol">> ->
            (CASE property = "icon-opacity" -> P("number", Num(100))
               [] property = "icon-color" -> P("color", Str("#000000"))
               [] property = "icon-translate" -> P("array", Arr(<<0, 0>>))
               [] property = "icon-translate-anchor" -> P("enum", Str("map"))
               [] property = "text-opacity" -> P("number", Num(100))
               [] property = "text-color" -> P("color", Str("#000000"))
               [] property = "text-halo-color" -> P("color", Str("rgba(0,0,0,0)"))
               [] property = "text-halo-width" -> P("number", Num(0))
               [] property = "text-translate" -> P("array", Arr(<<0, 0>>))
               [] OTHER -> Undef)
       [] group = <<"paint", "circle">> ->
            (CASE property = "circle-radius" -> P("number", Num(500))
               [] property = "circle-color" -> P("color", Str("#000000"))
               [] property = "circle-opacity" -> P("number", Num(100))
               [] property = "circle-stroke-width" -> P("number", Num(0))
               [] property = "circle-stroke-color" -> P("color", Str("#000000"))
               [] property = "circle-stroke-opacity" -> P("number", Num(100))
               [] OTHER -> Undef)
       [] OTHER -> Undef

\* A spec expression ["get", name], ["step", ["zoom"], v0, z, v1], or any
\* array headed by an operator name; isExpression looks at the head only.
Expr(op, args) == [t |-> "expression", op |-> op, args |-> args]
isExpression(v) == v.t = "expression"

\* A legacy zoom or property function {stops: ...} / {property: ...}.
isFunction(v) == v.t = "function"

\* convertFunction: a legacy function {property: name, type: "identity"}
\* becomes the expression reading that property.
convertFunction(v, propertySpec) == Expr("get", <<v.property>>)

\* createPropertyExpression: parse and type-check; the errors of a
\* malformed expression are returned, not thrown.
createPropertyExpression(raw, propertySpec) ==
  LET arity == CASE raw.op = "get" -> 1 [] raw.op = "step" -> 3 [] OTHER -> -1
      dflt == IF propertySpec.type = "color"
              THEN (IF ColorParse(propertySpec.default) = Undef THEN Null
                    ELSE ColorParse(propertySpec.default))
              ELSE (IF propertySpec.default = Undef THEN Null ELSE propertySpec.default)
  IN IF arity = -1
     THEN [result |-> "error", value |-> <<[key |-> "[0]", message |-> "Unknown expression"]>>]
     ELSE IF Len(raw.args) # arity
     THEN [result |-> "error", value |-> <<[key |-> "", message |-> "Expected arguments"]>>]
     ELSE [result |-> "success",
           value |-> [t |-> "evaluator", kind |-> "expression", e |-> raw,
                      type |-> propertySpec.type, default |-> dflt]]

\* The properties an evaluator reads off its feature argument.
FeatureProperties(feature) ==
  IF "properties" \in DOMAIN feature THEN feature.properties ELSE << >>

\* StyleExpression.evaluate(globals, feature): a null result, and a value
\* that does not convert to the property's type, give the default.
EvaluateExpression(ev, globals, feature) ==
  LET props == FeatureProperties(feature)
      raw == CASE ev.e.op = "get" ->
                    (IF ev.e.args[1] \in DOMAIN props THEN props[ev.e.args[1]] ELSE Null)
               [] ev.e.op = "step" ->
                    (IF globals.zoom < ev.e.args[2] THEN ev.e.args[1] ELSE ev.e.args[3])
               [] OTHER -> Null
      typed == IF ev.type = "color" /\ raw.t = "string"
               THEN (IF ColorParse(raw) = Undef THEN Null ELSE ColorParse(raw))
               ELSE raw
  IN IF typed = Null THEN ev.default ELSE typed

\* A compiled evaluator applied to (zoomObj, feature).
ApplyEvaluator(ev, globals, feature) ==
  IF ev.kind = "constant" THEN ev.value ELSE EvaluateExpression(ev, globals, feature)

\* A legacy filter ["==", key, value] / ["!=", key, value]; any other head
\* is taken for an expression, and an unknown one does not compile.
Filter(op, key, value) == [t |-> "filter", op |-> op, key |-> key, value |-> value]
FilterCompiles(filter) == filter.op \in {"==", "!="}

\* The geometry type name of a feature view's numeric type code.
geometryTypes == <<"Point", "LineString", "Polygon">>

\* createFilter(filter).filter applied to (zoomObj, feature).
ApplyFilter(filter, globals, feature) ==
  LET props == FeatureProperties(feature)
      actual == IF filter.key = "$type"
                THEN (IF "type" \in DOMAIN feature /\ feature.type \in 1..3
                      THEN Str(geometryTypes[feature.type]) ELSE Null)
                ELSE (IF filter.key \in DOMAIN props THEN props[filter.key] ELSE Null)
  IN IF filter.op = "==" THEN actual = filter.value ELSE actual # filter.value

---------------------------------------------------------------------------
(* The helpers of stylefunction.js.                                        *)

\* types: the numeric type code of a geometry type.
types(geometryType) ==
  CASE geometryType \in {"Point", "MultiPoint"} -> 1
    [] geometryType \in {"LineString", "MultiLineString"} -> 2
    [] geometryType \in {"Polygon", "MultiPolygon"} -> 3

\* colorWithOpacity: the rgba() string of a parsed color at an opacity, as
\* the record of its four numbers (alpha in ten-thousandths); undefined for
\* a fully transparent color or opacity 0; a missing color is returned as is.
colorWithOpacity(color, opacity) ==
  IF color.t = "color"
  THEN IF color.a = 0 \/ opacity = Num(0)
       THEN Undef
       ELSE LET a == color.a
                o == IF opacity = Undef THEN 100 ELSE opacity.n
            IN [t |-> "rgba", r |-> color.r \div a, g |-> color.g \div a,
                b |-> color.b \div a, a |-> a * o]
  ELSE color

\* The strings template substitution can build.
Strings == {"", "park", "{icon}", "{kind}", "icon", "kind", "w", "x", "poly", "line",
            "a", "a.1", "lost"}

\* The string with the given characters.
FromChars(cs) == CHOOSE s \in Strings : Chars(s) = cs

\* templateRegEx = /^([^]*)\{(.*)\}([^]*)$/ applied to a string: no match,
\* or the three groups.  Group 1 is greedy, so the brace pair starts at the
\* last "{" that a "}" follows on the same line, and ends at the last such "}".
MatchChars(cs) ==
  LET Closers(i) == {j \in (i + 1)..Len(cs) :
                       /\ cs[j] = "}"
                       /\ \A k \in (i + 1)..(j - 1) : cs[k] # "\n"}
      Openers == {i \in 1..Len(cs) : cs[i] = "{" /\ Closers(i) # {}}
  IN IF Openers = {}
     THEN Null
     ELSE LET i == CHOOSE a \in Openers : \A b \in Openers : b <= a
              j == CHOOSE a \in Closers(i) : \A b \in Closers(i) : b <= a
          IN <<SubSeq(cs, 1, i - 1), SubSeq(cs, i + 1, j - 1), SubSeq(cs, j + 1, Len(cs))>>

\* templateRegEx matches: the text has a "{" with a "}" after it on the
\* same line.
HasPlaceholder(cs) ==
  \E i \in 1..Len(cs) : \E j \in (i + 1)..Len(cs) :
    cs[i] = "{" /\ cs[j] = "}" /\ \A k \in (i + 1)..(j - 1) : cs[k] # "\n"

\* text.match(templateRegEx) of a string.
TemplateMatch(text) == MatchChars(Chars(text))

\* fromTemplate: replace {name} by properties[name] || '' until no brace
\* pair is left.
RECURSIVE fromTemplate(_, _)
fromTemplate(text, properties) ==
  Bind([parts \in {TemplateMatch(text)} |->
    IF parts = Null
    THEN text
    ELSE Bind([name \in {FromChars(parts[2])} |->
           fromTemplate(FromChars(parts[1]
                                  \o (IF name \in DOMAIN properties /\ Truthy(properties[name])
                                      THEN Chars(properties[name].s) ELSE << >>)
                                  \o parts[3]), properties)])])

---------------------------------------------------------------------------
(* The state one call of the style function works on.  c.thrown is the    *)
(* exception in flight (undefined while there is none): once it is set,   *)
(* no later statement of the call runs.  c.emitted and c.evals are        *)
(* history: the layer index behind every primitive of this call, and      *)
(* every evaluator the call applied.                                       *)

emptyObj == << >>

\* object[key], undefined when the object has no such key.
Lookup(object, key) == IF key \in DOMAIN object THEN object[key] ELSE Undef

\* object[key] = value.
Assign(object, key, value) == [k \in DOMAIN object \cup {key} |-> IF k = key THEN value ELSE object[k]]

\* delete object[key].
Delete(object, key) == [k \in DOMAIN object \ {key} |-> object[k]]

\* layer.paint || emptyObj and layer.layout || emptyObj.
Paint(layer) == IF "paint" \in DOMAIN layer THEN layer.paint ELSE emptyObj
Layout(layer) == IF "layout" \in DOMAIN layer THEN layer.layout ELSE emptyObj

\* expressionData that throws whatever the compilation gave.
expressionDataRejectsAll(rawExpression, propertySpec) ==
  LET compiledExpression == createPropertyExpression(rawExpression, propertySpec)
  IN [thrown |-> [t |-> "Error", errors |-> compiledExpression.value], value |-> Undef]

\* expressionData: compile, and throw the joined messages of a malformed
\* expression.
expressionData(rawExpression, propertySpec) ==
  LET compiledExpression == createPropertyExpression(rawExpression, propertySpec)
  IN IF compiledExpression.result = "error"
     THEN [thrown |-> [t |-> "Error", errors |-> compiledExpression.value], value |-> Undef]
     ELSE [thrown |-> Undef, value |-> compiledExpression.value]

\* The evaluator getValue builds on a cache miss: the layer's own value or
\* the spec default, a legacy function converted, an expression compiled,
\* a constant color parsed once.
CompileProperty(layer, layoutOrPaint, property) ==
  LET bag == IF layoutOrPaint \in DOMAIN layer THEN layer[layoutOrPaint] ELSE emptyObj
      propertySpec == PropertySpec(layoutOrPaint, layer.type, property)
      own == Lookup(bag, property)
      value == IF own = Undef THEN propertySpec.default ELSE own
      converted == IF ~isExpression(value) /\ isFunction(value)
                   THEN convertFunction(value, propertySpec) ELSE value
  IN IF propertySpec = Undef
     THEN [thrown |-> [t |-> "TypeError"], value |-> Undef]
     ELSE IF isExpression(converted)
     THEN expressionData(converted, propertySpec)
     ELSE [thrown |-> Undef,
           value |-> [t |-> "evaluator", kind |-> "constant",
                      value |-> IF propertySpec.type = "color"
                                THEN ColorParse(value) ELSE value]]

\* getValue returning the raw property value, instead of the evaluator's
\* result, on the call that compiles the evaluator.
getValueRawOnMiss(c, layer, layoutOrPaint, property, zoom, feature) ==
  IF c.thrown # Undef
  THEN [c |-> c, value |-> Undef]
  ELSE
  Bind([cache \in {IF layer.id \in DOMAIN c.functionCache THEN c.functionCache
       ELSE Assign(c.functionCache, layer.id, emptyObj)} |->
  Bind([hit \in {property \in DOMAIN cache[layer.id]} |->
  Bind([compiled \in {IF hit THEN [thrown |-> Undef, value |-> cache[layer.id][property]]
       ELSE CompileProperty(layer, layoutOrPaint, property)} |->
    IF compiled.thrown # Undef
    THEN [c |-> [c EXCEPT !.functionCache = cache, !.thrown = compiled.thrown,
                          !.failed = [id |-> layer.id, key |-> property]],
          value |-> Undef]
    ELSE [c |-> [c EXCEPT
                   !.functionCache = Assign(cache, layer.id,
                                            Assign(cache[layer.id], property, compiled.value)),
                   !.zoomObj = [zoom |-> zoom],
                   !.evals = @ \cup {[id |-> layer.id, key |-> property,
                                      bag |-> layoutOrPaint, ev |-> compiled.value,
                                      fresh |-> ~hit, zoom |-> zoom, feature |-> feature]}],
          value |-> IF hit \/ layoutOrPaint \notin DOMAIN layer
                       \/ property \notin DOMAIN layer[layoutOrPaint]
                    THEN ApplyEvaluator(compiled.value, [zoom |-> zoom], feature)
                    ELSE layer[layoutOrPaint][property]]])])])

\* getValue(layer, layoutOrPaint, property, zoom, feature).
getValue(c, layer, layoutOrPaint, property, zoom, feature) ==
  IF c.thrown # Undef
  THEN [c |-> c, value |-> Undef]
  ELSE
  Bind([cache \in {IF layer.id \in DOMAIN c.functionCache THEN c.functionCache
       ELSE Assign(c.functionCache, layer.id, emptyObj)} |->
  Bind([hit \in {property \in DOMAIN cache[layer.id]} |->
  Bind([compiled \in {IF hit THEN [thrown |-> Undef, value |-> cache[layer.id][property]]
       ELSE CompileProperty(layer, layoutOrPaint, property)} |->
    IF compiled.thrown # Undef
    THEN [c |-> [c EXCEPT !.functionCache = cache, !.thrown = compiled.thrown,
                          !.failed = [id |-> layer.id, key |-> property]],
          value |-> Undef]
    ELSE [c |-> [c EXCEPT
                   !.functionCache = Assign(cache, layer.id,
                                            Assign(cache[layer.id], property, compiled.value)),
                   !.zoomObj = [zoom |-> zoom],
                   !.evals = @ \cup {[id |-> layer.id, key |-> property,
                                      bag |-> layoutOrPaint, ev |-> compiled.value,
                                      fresh |-> ~hit, zoom |-> zoom, feature |-> feature]}],
          value |-> ApplyEvaluator(compiled.value, [zoom |-> zoom], feature)]])])])

\* evaluateFilter(layerId, filter, feature, zoom).
evaluateFilter(c, layerId, filter, feature, zoom) ==
  IF c.thrown # Undef
  THEN [c |-> c, value |-> FALSE]
  ELSE
  Bind([hit \in {layerId \in DOMAIN c.filterCache} |->
    IF ~hit /\ ~FilterCompiles(filter)
    THEN [c |-> [c EXCEPT !.thrown = [t |-> "Error", errors |-> <<filter.op>>],
                          !.failed = [id |-> layerId, key |-> "filter"]],
          value |-> FALSE]
    ELSE
    Bind([ev \in {IF hit THEN c.filterCache[layerId] ELSE [t |-> "predicate", filter |-> filter]} |->
      [c |-> [c EXCEPT
                !.filterCache = Assign(@, layerId, ev),
                !.zoomObj = [zoom |-> zoom],
                !.evals = @ \cup {[id |-> layerId, key |-> "filter", bag |-> "layer",
                                   ev |-> ev, fresh |-> ~hit, zoom |-> zoom,
                                   feature |-> feature]}],
       value |-> ApplyFilter(ev.filter, [zoom |-> zoom], feature)]])])

---------------------------------------------------------------------------
(* ol/style objects, as far as the style function reads and writes them.  *)

NewFill == [t |-> "Fill", color |-> Null]
NewStroke ==
  [t |-> "Stroke", color |-> Null, lineCap |-> Undef, lineDash |-> Null,
   lineJoin |-> Undef, miterLimit |-> Undef, width |-> Undef]
NewStyle(fill, stroke) ==
  [t |-> "Style", fill |-> fill, stroke |-> stroke, image |-> Null, text |-> Null,
   geometry |-> Null, zIndex |-> Undef]

\* styles[stylesLength], undefined past the end of the array.
CurrentStyle(c) ==
  IF c.stylesLength + 1 \in 1..Len(c.styles) THEN c.styles[c.stylesLength + 1] ELSE Undef

\* styles[stylesLength] = style.
PutStyle(c, style) ==
  [c EXCEPT !.styles = IF c.stylesLength + 1 \in 1..Len(c.styles)
                       THEN [@ EXCEPT ![c.stylesLength + 1] = style]
                       ELSE Append(@, style)]

\* ++stylesLength, and the layer id pushed on feature.styleIds[zoom] without
\* the indexOf test.
NextSlotAlwaysPush(c, layerId, index, zoom) ==
  [c EXCEPT !.stylesLength = @ + 1,
            !.emitted = Append(@, index),
            !.styleIds = [@ EXCEPT ![zoom] = Append(@, layerId)]]

\* ++stylesLength, and the layer id recorded once in feature.styleIds[zoom].
NextSlot(c, layerId, index, zoom) ==
  [c EXCEPT !.stylesLength = @ + 1,
            !.emitted = Append(@, index),
            !.styleIds = IF ArrayIndexOf(@[zoom], layerId) = -1
                         THEN [@ EXCEPT ![zoom] = Append(@, layerId)]
                         ELSE @]

\* The slot's style when it holds a fill and neither stroke nor text, else a
\* fresh style with an empty fill.
FillSlot(c) ==
  Bind([style \in {CurrentStyle(c)} |->
    IF style = Undef \/ style.fill = Null \/ style.stroke # Null \/ style.text # Null
    THEN PutStyle(c, NewStyle(NewFill, Null))
    ELSE c])

\* The slot's style when it holds a stroke and neither fill nor text, else a
\* fresh style with an empty stroke.
StrokeSlot(c) ==
  Bind([style \in {CurrentStyle(c)} |->
    IF style = Undef \/ style.stroke = Null \/ style.fill # Null \/ style.text # Null
    THEN PutStyle(c, NewStyle(Null, NewStroke))
    ELSE c])

\* The slot's style whatever it holds, a fresh empty style for an empty slot.
ImageSlotWhateverShape(c) ==
  Bind([style \in {CurrentStyle(c)} |->
    IF style = Undef
    THEN PutStyle(c, NewStyle(Null, Null))
    ELSE c])

\* The slot's style when it holds an image and neither fill nor stroke, else
\* a fresh empty style.
ImageSlot(c) ==
  Bind([style \in {CurrentStyle(c)} |->
    IF style = Undef \/ ~Truthy(style.image) \/ style.fill # Null \/ style.stroke # Null
    THEN PutStyle(c, NewStyle(Null, Null))
    ELSE c])

\* The slot's style when it holds a text and neither fill nor stroke, else a
\* fresh empty style.
TextSlot(c) ==
  Bind([style \in {CurrentStyle(c)} |->
    IF style = Undef \/ ~Truthy(style.text) \/ style.fill # Null \/ style.stroke # Null
    THEN PutStyle(c, NewStyle(Null, Null))
    ELSE c])

\* A setter applied to the current slot's style; nothing once the call has thrown.
Update(c, style) == IF c.thrown # Undef THEN c ELSE PutStyle(c, style)

\* Object.toString() of a resolved value (a string is itself).
toString(v) == v.s

---------------------------------------------------------------------------
(* styleFunction, one block of the layer loop's body at a time.  cl is the *)
(* closure the style function captured, f the feature view {properties,   *)
(* type}.                                                                  *)

\* The fill-pattern branch without the test of the sprite image.
FillPatternUnloaded(c0, cl, layer, index, zoom, f, properties, opacity) ==
  Bind([rImage \in {getValue(c0, layer, "paint", "fill-pattern", zoom, f)} |->
    IF rImage.c.thrown # Undef \/ ~Truthy(rImage.value)
    THEN rImage.c
    ELSE
    Bind([icon \in {IF rImage.value.t = "string" THEN fromTemplate(rImage.value.s, properties)
         ELSE toString(rImage.value)} |->
      IF Truthy(cl.spriteData) /\ Truthy(Lookup(cl.spriteData.icons, icon))
      THEN
      Bind([c1 \in {NextSlot(rImage.c, layer.id, index, zoom)} |->
      Bind([c2 \in {FillSlot(c1)} |->
      Bind([icon_cache_key \in {<<icon, opacity>>} |->
      Bind([pattern \in {IF Truthy(Lookup(c2.patternCache, icon_cache_key))
           THEN c2.patternCache[icon_cache_key]
           ELSE [t |-> "pattern", icon |-> icon, globalAlpha |-> opacity,
                 rect |-> cl.spriteData.icons[icon]]} |->
        PutStyle([c2 EXCEPT !.patternCache = Assign(@, icon_cache_key, pattern)],
                 [CurrentStyle(c2) EXCEPT !.zIndex = Num(index),
                                          !.fill.color = pattern])])])])])
      ELSE rImage.c])])

\* The fill-pattern branch: a fill whose color is the cached repeat pattern
\* of the sprite entry, when the sprite image and the entry are there.
FillPattern(c0, cl, layer, index, zoom, f, properties, opacity) ==
  Bind([rImage \in {getValue(c0, layer, "paint", "fill-pattern", zoom, f)} |->
    IF rImage.c.thrown # Undef \/ ~Truthy(rImage.value)
    THEN rImage.c
    ELSE
    Bind([icon \in {IF rImage.value.t = "string" THEN fromTemplate(rImage.value.s, properties)
         ELSE toString(rImage.value)} |->
      IF Truthy(cl.spriteImage) /\ Truthy(cl.spriteData)
         /\ Truthy(Lookup(cl.spriteData.icons, icon))
      THEN
      Bind([c1 \in {NextSlot(rImage.c, layer.id, index, zoom)} |->
      Bind([c2 \in {FillSlot(c1)} |->
      Bind([icon_cache_key \in {<<icon, opacity>>} |->
      Bind([pattern \in {IF Truthy(Lookup(c2.patternCache, icon_cache_key))
           THEN c2.patternCache[icon_cache_key]
           ELSE [t |-> "pattern", icon |-> icon, globalAlpha |-> opacity,
                 rect |-> cl.spriteData.icons[icon]]} |->
        PutStyle([c2 EXCEPT !.patternCache = Assign(@, icon_cache_key, pattern)],
                 [CurrentStyle(c2) EXCEPT !.zIndex = Num(index),
                                          !.fill.color = pattern])])])])])
      ELSE rImage.c])])

\* The outline only for a fill-outline-color: fill-antialias ignored.
OutlineColorNoAntialias(paint, outline, color, opacity) ==
  IF "fill-outline-color" \in DOMAIN paint
  THEN colorWithOpacity(outline, opacity)
  ELSE Undef

\* The color of a fill's outline: fill-outline-color at the fill's opacity
\* when paint has it, else the fill's color when paint has fill-antialias.
OutlineColor(paint, outline, color, opacity) ==
  IF "fill-outline-color" \in DOMAIN paint
  THEN colorWithOpacity(outline, opacity)
  ELSE IF "fill-antialias" \in DOMAIN paint THEN color ELSE Undef

\* The fill-color branch: the fill, when its color is visible, and then the
\* 1px outline in fill-outline-color, or in the fill color when paint has
\* fill-antialias.
FillColor(c0, layer, index, zoom, f, properties, opacity) ==
  Bind([rColor \in {getValue(c0, layer, "paint", "fill-color", zoom, f)} |->
  Bind([color \in {colorWithOpacity(rColor.value, opacity)} |->
  Bind([c1 \in {IF rColor.c.thrown = Undef /\ Truthy(color)
       THEN Bind([n \in {NextSlot(rColor.c, layer.id, index, zoom)} |->
            Bind([s \in {FillSlot(n)} |->
              PutStyle(s, [CurrentStyle(s) EXCEPT !.fill.color = color,
                                                  !.zIndex = Num(index)])])])
       ELSE rColor.c} |->
  Bind([rOutline \in {IF "fill-outline-color" \in DOMAIN Paint(layer)
       THEN getValue(c1, layer, "paint", "fill-outline-color", zoom, properties)
       ELSE [c |-> c1, value |-> Undef]} |->
  Bind([strokeColor \in {OutlineColor(Paint(layer), rOutline.value, color, opacity)} |->
    IF rOutline.c.thrown = Undef /\ Truthy(strokeColor)
    THEN Bind([n \in {NextSlot(rOutline.c, layer.id, index, zoom)} |->
         Bind([s \in {StrokeSlot(n)} |->
           PutStyle(s, [CurrentStyle(s) EXCEPT !.stroke.color = strokeColor,
                                               !.stroke.width = Num(1),
                                               !.zIndex = Num(index)])])])
    ELSE rOutline.c])])])])])

\* if (type == 3 && layer.type == 'fill'): fill-opacity, then the pattern
\* branch when paint has fill-pattern, else the color branch when it has
\* fill-color.
FillEmission(c0, cl, layer, index, zoom, f, properties) ==
  Bind([rOpacity \in {getValue(c0, layer, "paint", "fill-opacity", zoom, f)} |->
    IF rOpacity.c.thrown # Undef
    THEN rOpacity.c
    ELSE IF "fill-pattern" \in DOMAIN Paint(layer)
    THEN FillPattern(rOpacity.c, cl, layer, index, zoom, f, properties, rOpacity.value)
    ELSE IF "fill-color" \in DOMAIN Paint(layer)
    THEN FillColor(rOpacity.c, layer, index, zoom, f, properties, rOpacity.value)
    ELSE rOpacity.c])

\* A stroke for every visible color, whatever the width.
StrokeDrawnAtAnyWidth(color, width) == Truthy(color)

\* color && width > 0: the test that a line layer draws a stroke.
StrokeDrawn(color, width) == Truthy(color) /\ width.n > 0

\* if (type != 1 && layer.type == 'line'): a stroke when the color is
\* visible and the width positive; the dash array is scaled by the width.
LineEmission(c0, layer, index, zoom, f) ==
  Bind([colored \in {"line-pattern" \notin DOMAIN Paint(layer) /\ "line-color" \in DOMAIN Paint(layer)} |->
  Bind([rColor \in {IF colored THEN getValue(c0, layer, "paint", "line-color", zoom, f)
       ELSE [c |-> c0, value |-> Undef]} |->
  Bind([rOpacity \in {IF colored THEN getValue(rColor.c, layer, "paint", "line-opacity", zoom, f)
       ELSE rColor} |->
  Bind([color \in {IF colored /\ rOpacity.c.thrown = Undef
       THEN colorWithOpacity(rColor.value, rOpacity.value) ELSE Undef} |->
  Bind([rWidth \in {getValue(rOpacity.c, layer, "paint", "line-width", zoom, f)} |->
    IF rWidth.c.thrown # Undef \/ ~StrokeDrawn(color, rWidth.value)
    THEN rWidth.c
    ELSE
    Bind([n \in {NextSlot(rWidth.c, layer.id, index, zoom)} |->
    Bind([c2 \in {StrokeSlot(n)} |->
    Bind([rCap \in {getValue(c2, layer, "layout", "line-cap", zoom, f)} |->
    Bind([c3 \in {Update(rCap.c, [CurrentStyle(c2) EXCEPT !.stroke.lineCap = rCap.value])} |->
    Bind([rJoin \in {getValue(c3, layer, "layout", "line-join", zoom, f)} |->
    Bind([c4 \in {Update(rJoin.c, [CurrentStyle(c3) EXCEPT !.stroke.lineJoin = rJoin.value])} |->
    Bind([rMiter \in {getValue(c4, layer, "layout", "line-miter-limit", zoom, f)} |->
    Bind([c5 \in {Update(rMiter.c, [CurrentStyle(c4) EXCEPT !.stroke.miterLimit = rMiter.value,
                                                   !.stroke.color = color,
                                                   !.stroke.width = rWidth.value])} |->
    Bind([dashed \in {Truthy(Lookup(Paint(layer), "line-dasharray"))} |->
    Bind([rDash \in {IF dashed /\ c5.thrown = Undef
         THEN getValue(c5, layer, "paint", "line-dasharray", zoom, f)
         ELSE [c |-> c5, value |-> Null]} |->
      Update(rDash.c,
             [CurrentStyle(c5) EXCEPT
                !.stroke.lineDash = IF dashed /\ rDash.c.thrown = Undef
                                    THEN Arr([i \in 1..Len(rDash.value.items) |->
                                                rDash.value.items[i] * rWidth.value.n])
                                    ELSE Null,
                !.zIndex = Num(index)])])])])])])])])])])])])])])])])

\* covertIconAnchor: the anchor origin and the anchor's offset, in
\* hundredths of the icon's size, of an icon-anchor value.
covertIconAnchor(iconAnchor) ==
  CASE iconAnchor \in {"top-left", "top-right", "bottom-left", "bottom-right"} ->
         [anchorOffset |-> <<0, 0>>, iconAnchor |-> iconAnchor]
    [] iconAnchor = "left" -> [anchorOffset |-> <<0, 50>>, iconAnchor |-> "top-left"]
    [] iconAnchor = "right" -> [anchorOffset |-> <<100, 50>>, iconAnchor |-> "top-left"]
    [] iconAnchor = "bottom" -> [anchorOffset |-> <<50, 100>>, iconAnchor |-> "top-left"]
    [] iconAnchor = "top" -> [anchorOffset |-> <<50, 0>>, iconAnchor |-> "top-left"]
    [] OTHER -> [anchorOffset |-> <<50, 50>>, iconAnchor |-> iconAnchor]

\* The number of levels of the default pyramid of resolutions.
NumLevels == 21

\* A resolution, given by its place 100 * z + k on the logarithmic scale, in
\* map units per pixel: level 20 is 200 units, every level below doubles,
\* and between two levels the value is interpolated.
ResolutionValue(resolution) ==
  2 ^ (NumLevels - 1 - (resolution \div 100)) * (200 - (resolution % 100))

\* The test on the diagonal of the extent: sqrt(dx^2 + dy^2) / resolution
\* over the limit.
SizeExceedsOnDiagonal(extent, resolution, limit) ==
  LET dx == (extent[3] - extent[1]) \div 100
      dy == (extent[4] - extent[2]) \div 100
      bound == (limit * ResolutionValue(resolution)) \div 100
  IN dx * dx + dy * dy > bound * bound

\* size > limit for size = Math.sqrt(Math.max(Math.pow(dx / resolution, 2),
\* Math.pow(dy / resolution, 2))): the longer side of the extent, in pixels,
\* is over the limit.
SizeExceeds(extent, resolution, limit) ==
  LET dx == extent[3] - extent[1]
      dy == extent[4] - extent[2]
      Abs(x) == IF x < 0 THEN -x ELSE x
      longer == IF Abs(dx) > Abs(dy) THEN Abs(dx) ELSE Abs(dy)
  IN longer > limit * ResolutionValue(resolution)

\* The pixel size a line must exceed to get an icon.
IconSizeLimit == 150

\* deg2rad (util.js): an angle in degrees, here hundredths of a degree, as
\* radians; kept as the multiple of pi / 18000 it is.
deg2rad(degrees) == [t |-> "radians", piOver18000 |-> degrees]

\* Number(text) of the texts a rotation template can give, in hundredths.
ToNumber(text) ==
  CASE text = "" -> 0
    [] OTHER -> [t |-> "NaN"]

\* The composited icon built on a cache miss: the sprite entry cut out of
\* the sprite image, every pixel's r, g, b overwritten when icon-color is
\* set (by characters of the rgba() string, which a pixel array stores as 0),
\* anchored and scaled.  The anchor and the scale are kept as fractions.
NewIcon(spriteImageData, iconColor, iconTranslate, iconAnchor, anchorOffset, iconOffset, iconSize) ==
  [t |-> "Icon",
   img |-> [rect |-> spriteImageData,
            tint |-> IF iconColor # Null THEN <<0, 0, 0>> ELSE Null],
   anchorOrigin |-> iconAnchor,
   anchor |-> [x |-> [num |-> (iconOffset.items[1] + anchorOffset[1]) * spriteImageData.width
                               + iconTranslate.items[1],
                      den |-> spriteImageData.width],
               y |-> [num |-> (iconOffset.items[2] + anchorOffset[2]) * spriteImageData.height
                               - iconTranslate.items[2],
                      den |-> spriteImageData.height]],
   imgSize |-> <<spriteImageData.width, spriteImageData.height>>,
   scale |-> [num |-> iconSize.n, den |-> spriteImageData.pixelRatio],
   rotation |-> Undef, opacity |-> Undef]

\* icon_cache_key: the name, size, translate, translate anchor, anchor
\* origin, offset and anchor offset joined with ".", and the color too when
\* paint has icon-color.
IconCacheKey(icon, iconSize, iconTranslate, iconTranslateAnchor, iconAnchor, iconOffset, anchorOffset, iconColor) ==
  Chars(icon) \o <<".">> \o ToChars(iconSize) \o <<".">> \o ToChars(iconTranslate)
  \o <<".">> \o ToChars(iconTranslateAnchor) \o <<".">> \o Chars(iconAnchor)
  \o <<".">> \o ToChars(iconOffset) \o <<".">> \o ToChars(Arr(anchorOffset))
  \o (IF iconColor # Null THEN <<".">> \o ToChars(iconColor) ELSE << >>)

\* The offset that puts icons, circles and texts above fills and strokes.
ZIndexOffset == 99999

\* The layer's index as the z-index of its icon, circle or text, and the
\* offset plus the index.
SymbolZIndexAsFlat(index) == index
SymbolZIndexAscending(index) == ZIndexOffset + index

\* 99999 - index: the z-index of a layer's icon, circle or text.
SymbolZIndex(index) == ZIndexOffset - index

\* The rotation of an icon: icon-rotate in degrees, or 360 minus the number
\* a template beginning with "{" gives.
IconRotation(rotateValue, properties) ==
  IF rotateValue.t = "string"
  THEN IF StringIndexOf(rotateValue.s, "{") = 0
       THEN Bind([n \in {ToNumber(fromTemplate(rotateValue.s, properties))} |->
              IF n.t = "number" THEN deg2rad(36000 - n.n) ELSE n])
       ELSE Bind([n \in {ToNumber(rotateValue.s)} |->
              IF n.t = "number" THEN deg2rad(n.n) ELSE n])
  ELSE deg2rad(rotateValue.n)

\* The icon of a layer on the next slot: the slot's style reused when it
\* holds only an image, the composited icon taken from iconImageCache under
\* icon_cache_key or built and stored there, then rotated and faded in
\* place, and set as the style's image above the fills and strokes.
IconImage(c0, cl, layer, index, zoom, f, properties, icon, styleGeom) ==
  Bind([c1 \in {NextSlot(c0, layer.id, index, zoom)} |->
  Bind([c2 \in {ImageSlot(c1)} |->
  Bind([c3 \in {PutStyle(c2, [CurrentStyle(c2) EXCEPT !.geometry = styleGeom])} |->
  Bind([rSize \in {getValue(c3, layer, "layout", "icon-size", zoom, f)} |->
  Bind([rColor \in {IF Lookup(Paint(layer), "icon-color") # Undef
                    THEN getValue(rSize.c, layer, "paint", "icon-color", zoom, f)
                    ELSE [c |-> rSize.c, value |-> Null]} |->
  Bind([rTranslate \in {getValue(rColor.c, layer, "paint", "icon-translate", zoom, f)} |->
  Bind([rTranslateAnchor \in {getValue(rTranslate.c, layer, "paint", "icon-translate-anchor",
                                       zoom, f)} |->
  Bind([rAnchor \in {getValue(rTranslateAnchor.c, layer, "layout", "icon-anchor", zoom, f)} |->
  Bind([rOffset \in {getValue(rAnchor.c, layer, "layout", "icon-offset", zoom, f)} |->
    IF rOffset.c.thrown # Undef
    THEN rOffset.c
    ELSE
    Bind([converted \in {covertIconAnchor(rAnchor.value.s)} |->
    Bind([icon_cache_key \in {IconCacheKey(icon, rSize.value, rTranslate.value,
                                           rTranslateAnchor.value, converted.iconAnchor,
                                           rOffset.value, converted.anchorOffset,
                                           rColor.value)} |->
    Bind([hit \in {Truthy(Lookup(rOffset.c.iconImageCache, icon_cache_key))} |->
      IF ~hit /\ rColor.value # Null /\ colorWithOpacity(rColor.value, Num(100)) = Undef
      THEN [rOffset.c EXCEPT !.thrown = [t |-> "TypeError"],
                             !.failed = [id |-> layer.id, key |-> "icon-color"]]
      ELSE
      Bind([c4 \in {[rOffset.c EXCEPT
                      !.iconImageCache =
                         IF hit THEN @
                         ELSE Assign(@, icon_cache_key,
                                     NewIcon(cl.spriteData.icons[icon], rColor.value,
                                             rTranslate.value, converted.iconAnchor,
                                             converted.anchorOffset, rOffset.value,
                                             rSize.value)),
                      !.made = Append(@, [kind |-> "icon", key |-> icon_cache_key,
                                          tuple |-> <<icon, rSize.value, rTranslate.value,
                                                      rTranslateAnchor.value, rAnchor.value,
                                                      rOffset.value, rColor.value>>,
                                          reused |-> hit, index |-> index])]} |->
      Bind([rRotate \in {getValue(c4, layer, "layout", "icon-rotate", zoom, f)} |->
        IF rRotate.c.thrown # Undef
        THEN rRotate.c
        ELSE
        Bind([c5 \in {[rRotate.c EXCEPT !.iconImageCache[icon_cache_key].rotation =
                                          IconRotation(rRotate.value, properties)]} |->
        Bind([rOpacity \in {getValue(c5, layer, "paint", "icon-opacity", zoom, f)} |->
          IF rOpacity.c.thrown # Undef
          THEN rOpacity.c
          ELSE
          Bind([c6 \in {[rOpacity.c EXCEPT !.iconImageCache[icon_cache_key].opacity =
                                             rOpacity.value]} |->
            [PutStyle(c6, [CurrentStyle(c6) EXCEPT
                             !.image = [t |-> "Icon", ref |-> icon_cache_key],
                             !.text = Undef,
                             !.zIndex = Num(SymbolZIndex(index))])
               EXCEPT !.text = CurrentStyle(c6).text,
                      !.hasImage = TRUE,
                      !.skipLabel = Bool(FALSE)]])])])])])])])])])])])])])])])])])

\* if ((type == 1 || type == 2) && 'icon-image' in layout): the icon of a
\* point, or of a line at its flat midpoint once the line is large enough on
\* screen, when the sprite image and the icon's sprite entry are there; a
\* line too small has its label skipped as well.
IconEmission(c0, cl, layer, index, zoom, f, properties, feature, resolution) ==
  Bind([rImage \in {getValue(c0, layer, "layout", "icon-image", zoom, f)} |->
    IF rImage.c.thrown # Undef \/ ~Truthy(rImage.value)
    THEN rImage.c
    ELSE
    Bind([icon \in {IF rImage.value.t = "string" THEN fromTemplate(rImage.value.s, properties)
                   ELSE toString(rImage.value)} |->
      IF ~(Truthy(cl.spriteImage) /\ Truthy(cl.spriteData)
           /\ Truthy(Lookup(cl.spriteData.icons, icon)))
      THEN rImage.c
      ELSE
      Bind([styleGeom \in {IF /\ f.type = 2
                              /\ feature.geometry.getFlatMidpoint
                              /\ SizeExceeds(feature.geometry.extent, resolution,
                                             IconSizeLimit)
                           THEN [t |-> "Point", of |-> "flatMidpoint"]
                           ELSE Undef} |->
        IF f.type # 2 \/ styleGeom # Undef
        THEN IconImage(rImage.c, cl, layer, index, zoom, f, properties, icon, styleGeom)
        ELSE [rImage.c EXCEPT !.skipLabel = Bool(TRUE)]])])])

\* An option handed to an ol/style constructor: undefined is the default, null.
Option(v) == IF v = Undef THEN Null ELSE v

\* A circle's stroke whatever its width.
CircleStrokeAlways(circleStrokeWidth, circleStrokeColor, circleStrokeOpacity) ==
  [NewStroke EXCEPT !.width = circleStrokeWidth,
                    !.color = Option(colorWithOpacity(circleStrokeColor,
                                                      circleStrokeOpacity))]

\* The stroke option of a circle: none for a width of 0, else a stroke of
\* that width in the stroke color at the stroke opacity.
CircleStroke(circleStrokeWidth, circleStrokeColor, circleStrokeOpacity) ==
  IF circleStrokeWidth = Num(0)
  THEN Undef
  ELSE [NewStroke EXCEPT !.width = circleStrokeWidth,
                         !.color = Option(colorWithOpacity(circleStrokeColor,
                                                           circleStrokeOpacity))]

\* new Circle({radius, stroke, fill}).
NewCircle(circleRadius, stroke, fill) ==
  [t |-> "Circle", radius |-> circleRadius, stroke |-> Option(stroke), fill |-> fill]

\* cache_key of a circle: radius, stroke color, color, opacity, stroke width
\* and stroke opacity joined with ".".
CircleCacheKey(circleRadius, circleStrokeColor, circleColor, circleOpacity, circleStrokeWidth, circleStrokeOpacity) ==
  ToChars(circleRadius) \o <<".">> \o ToChars(circleStrokeColor) \o <<".">>
  \o ToChars(circleColor) \o <<".">> \o ToChars(circleOpacity) \o <<".">>
  \o ToChars(circleStrokeWidth) \o <<".">> \o ToChars(circleStrokeOpacity)

\* if (type == 1 && 'circle-radius' in paint): the circle of a point on the
\* next slot.  iconImageCache is read under cache_key and never written, so
\* the circle is built on every emission.
CircleEmission(c0, layer, index, zoom, f) ==
  Bind([c1 \in {NextSlot(c0, layer.id, index, zoom)} |->
  Bind([c2 \in {ImageSlot(c1)} |->
  Bind([rRadius \in {getValue(c2, layer, "paint", "circle-radius", zoom, f)} |->
  Bind([rStrokeColor \in {getValue(rRadius.c, layer, "paint", "circle-stroke-color", zoom, f)} |->
  Bind([rColor \in {getValue(rStrokeColor.c, layer, "paint", "circle-color", zoom, f)} |->
  Bind([rOpacity \in {getValue(rColor.c, layer, "paint", "circle-opacity", zoom, f)} |->
  Bind([rStrokeWidth \in {getValue(rOpacity.c, layer, "paint", "circle-stroke-width", zoom, f)} |->
  Bind([rStrokeOpacity \in {getValue(rStrokeWidth.c, layer, "paint", "circle-stroke-opacity",
                                     zoom, f)} |->
    IF rStrokeOpacity.c.thrown # Undef
    THEN rStrokeOpacity.c
    ELSE
    Bind([cache_key \in {CircleCacheKey(rRadius.value, rStrokeColor.value, rColor.value,
                                        rOpacity.value, rStrokeWidth.value,
                                        rStrokeOpacity.value)} |->
    Bind([hit \in {Truthy(Lookup(rStrokeOpacity.c.iconImageCache, cache_key))} |->
    Bind([iconImg \in {IF hit
                      THEN [t |-> "Icon", ref |-> cache_key]
                      ELSE NewCircle(rRadius.value,
                                     CircleStroke(rStrokeWidth.value, rStrokeColor.value,
                                                  rStrokeOpacity.value),
                                     [NewFill EXCEPT !.color =
                                        Option(colorWithOpacity(rColor.value,
                                                                rOpacity.value))])} |->
    Bind([c3 \in {[rStrokeOpacity.c EXCEPT
                    !.made = Append(@, [kind |-> "circle", key |-> cache_key,
                                        tuple |-> <<rRadius.value, rStrokeColor.value,
                                                    rColor.value, rOpacity.value,
                                                    rStrokeWidth.value,
                                                    rStrokeOpacity.value>>,
                                        reused |-> hit, index |-> index])]} |->
      [PutStyle(c3, [CurrentStyle(c3) EXCEPT !.image = iconImg,
                                             !.text = Undef,
                                             !.geometry = Undef,
                                             !.zIndex = Num(SymbolZIndex(index))])
         EXCEPT !.text = CurrentStyle(c3).text,
                !.hasImage = TRUE]])])])])])])])])])])])])

---------------------------------------------------------------------------
(* Labels: the font chosen from a font stack, and a label wrapped to a     *)
(* width.  A text is the sequence of its characters.                       *)

\* The key an array of strings has when it indexes an object: its elements
\* joined with commas.
ArrayKey(strings) == JoinChars([i \in 1..Len(strings) |-> Chars(strings[i])])

\* chooseFont(fonts, availableFonts) on fontMap: the font remembered for the
\* stack; else the first font of the stack that is available, or the last
\* font of the stack, when a list of available fonts is given, and the
\* first font of the stack when none is given; remembered under the stack.
chooseFont(fm, fonts, availableFonts) ==
  Bind([key \in {ArrayKey(fonts.items)} |->
    IF key \in DOMAIN fm /\ fm[key] # ""
    THEN [fontMap |-> fm, value |-> fm[key]]
    ELSE
    Bind([font \in {IF Truthy(availableFonts)
                   THEN LET found == {i \in 1..Len(fonts.items) :
                                        ArrayIndexOf(availableFonts.items, fonts.items[i]) # -1}
                            first == CHOOSE i \in found : \A j \in found : i <= j
                        IN IF found # {} /\ fonts.items[first] # ""
                           THEN fonts.items[first]
                           ELSE fonts.items[Len(fonts.items)]
                   ELSE fonts.items[1]} |->
      [fontMap |-> Assign(fm, key, font), value |-> font]])])

\* mb2css (mapbox-to-css-font): the CSS font of a font name at a size, here
\* "<size>px <name>".
mb2css(font, size) == NumberChars(size.n) \o <<"p", "x", " ">> \o Chars(font)

\* The advance width of a character on the measuring canvas, in pixels.
CharWidth(ch) ==
  CASE ch = "M" -> 10
    [] ch = " " -> 3
    [] ch = "\n" -> 0
    [] ch \in {"zhong", "wen"} -> 10
    [] OTHER -> 6

\* ctx.measureText(text).width: the sum of the advance widths.
RECURSIVE MeasureText(_)
MeasureText(text) ==
  IF Len(text) = 0 THEN 0 ELSE CharWidth(Head(text)) + MeasureText(Tail(text))

\* /[\u4E00-\u9FA5]+/.test(text): the text has a CJK ideograph.  The
\* ideographs are written by name.
HasIdeograph(text) == \E i \in 1..Len(text) : text[i] \in {"zhong", "wen"}

\* text.split(separator): the pieces between the separators, empty pieces
\* included.
RECURSIVE Split(_, _)
Split(text, separator) ==
  LET hits == {i \in 1..Len(text) : text[i] = separator}
  IN IF hits = {}
     THEN <<text>>
     ELSE LET i == CHOOSE a \in hits : \A b \in hits : a <= b
          IN <<SubSeq(text, 1, i - 1)>> \o Split(SubSeq(text, i + 1, Len(text)), separator)

\* lines.join(separator).
RECURSIVE Join(_, _)
Join(lines, separator) ==
  IF Len(lines) = 0 THEN << >>
  ELSE IF Len(lines) = 1 THEN lines[1]
  ELSE lines[1] \o <<separator>> \o Join(Tail(lines), separator)

\* The forEach of wrapChineseText from the i-th character on: a character
\* joins the piece being built unless the piece would then be wider than
\* maxWidth, in which case the piece is closed and the character starts the
\* next.  Widths are compared in hundredths of a pixel.
RECURSIVE WrapCharacters(_, _, _, _, _)
WrapCharacters(text, i, temp, res, maxWidth) ==
  IF i > Len(text)
  THEN Append(res, temp)
  ELSE IF 100 * MeasureText(Append(temp, text[i])) > maxWidth
  THEN WrapCharacters(text, i + 1, <<text[i]>>, Append(res, temp), maxWidth)
  ELSE WrapCharacters(text, i + 1, Append(temp, text[i]), res, maxWidth)

\* wrapChineseText: the text itself when it fits maxWidth, else its pieces.
wrapChineseText(text, maxWidth) ==
  IF 100 * MeasureText(text) > maxWidth
  THEN WrapCharacters(text, 1, << >>, << >>, maxWidth)
  ELSE <<text>>

\* Every word fits the line.
FitsAlways(line, word, width) == TRUE

\* ctx.measureText(line + word).width <= width: the line and the word,
\* with nothing between them, fit the width.
Fits(line, word, width) == 100 * MeasureText(line \o word) <= width

\* The packing loop of wrapText from the i-th word on: a word that fits is
\* appended to the line after a space, any other closes the line, if there
\* is one, and starts the next.
RECURSIVE PackWords(_, _, _, _, _)
PackWords(words, i, line, lines, width) ==
  IF i > Len(words)
  THEN IF line # << >> THEN Append(lines, line) ELSE lines
  ELSE IF Fits(line, words[i], width)
  THEN PackWords(words, i + 1,
                 line \o (IF line # << >> THEN <<" ">> ELSE << >>) \o words[i],
                 lines, width)
  ELSE PackWords(words, i + 1, words[i],
                 IF line # << >> THEN Append(lines, line) ELSE lines, width)

\* The lines wrapText computes on a cache miss: the budget is em times the
\* width of "M"; a text with an ideograph is cut into pieces by character,
\* any other into words at the spaces; then the pieces are packed.
WrapLines(text, em) ==
  Bind([width \in {MeasureText(<<"M">>) * em} |->
  Bind([words \in {IF HasIdeograph(text) THEN wrapChineseText(text, width)
                   ELSE Split(text, " ")} |->
    PackWords(words, 1, << >>, << >>, width)])])

\* wrapText(text, font, em) on measureCache: the wrapped text remembered
\* under em + ',' + font + ',' + text, else the lines joined with "\n",
\* remembered under that key.  em is kept in hundredths.
MeasureKey(text, font, em) == NumberChars(em) \o <<",">> \o font \o <<",">> \o text

wrapText(measureCache, text, font, em) ==
  Bind([key \in {MeasureKey(text, font, em)} |->
    IF key \in DOMAIN measureCache /\ measureCache[key] # << >>
    THEN [measureCache |-> measureCache, value |-> measureCache[key]]
    ELSE Bind([wrappedText \in {Join(WrapLines(text, em), "\n")} |->
           [measureCache |-> Assign(measureCache, key, wrappedText),
            value |-> wrappedText]])])

\* new Text(): the defaults of ol/style/Text.
NewText ==
  [t |-> "Text", text |-> Undef, font |-> Undef, rotation |-> Undef, placement |-> "point",
   textAlign |-> Undef, maxAngle |-> deg2rad(4500), textBaseline |-> Undef,
   offsetX |-> [num |-> 0, den |-> 20000], offsetY |-> [num |-> 0, den |-> 20000],
   fill |-> [NewFill EXCEPT !.color = Str("#333")], stroke |-> Null]

\* String.prototype.toUpperCase and toLowerCase, character by character.
LowerCaseLetters ==
  <<"a", "b", "c", "d", "e", "f", "g", "h", "i", "j", "k", "l", "m",
    "n", "o", "p", "q", "r", "s", "t", "u", "v", "w", "x", "y", "z">>
UpperCaseLetters ==
  <<"A", "B", "C", "D", "E", "F", "G", "H", "I", "J", "K", "L", "M",
    "N", "O", "P", "Q", "R", "S", "T", "U", "V", "W", "X", "Y", "Z">>
toUpperCase(text) ==
  [i \in 1..Len(text) |->
     IF ArrayIndexOf(LowerCaseLetters, text[i]) # -1
     THEN UpperCaseLetters[ArrayIndexOf(LowerCaseLetters, text[i]) + 1] ELSE text[i]]
toLowerCase(text) ==
  [i \in 1..Len(text) |->
     IF ArrayIndexOf(UpperCaseLetters, text[i]) # -1
     THEN LowerCaseLetters[ArrayIndexOf(UpperCaseLetters, text[i]) + 1] ELSE text[i]]

\* A setter applied to the text of the current slot's style; nothing once
\* the call has thrown.
SetText(c, text) ==
  IF c.thrown # Undef THEN c ELSE PutStyle(c, [CurrentStyle(c) EXCEPT !.text = text])

\* The text of the current slot's style.
CurrentText(c) == CurrentStyle(c).text

\* The font of a label: the font chosen for the layer's text-font stack, at
\* the text size.  chooseFont is called with the stack alone: the list of
\* available fonts given at construction is not handed on.
LabelFont(c, cl, fonts, textSize) ==
  Bind([chosen \in {chooseFont(c.fontMap, fonts, Undef)} |->
    [c |-> [c EXCEPT !.fontMap = chosen.fontMap],
     name |-> chosen.value,
     value |-> mb2css(chosen.value, textSize)]])

\* The middle of the label block: the placement, then alignment, baseline
\* and offsets from text-anchor, the halo width, text-offset and
\* text-translate.  Offsets are kept as fractions of a pixel.
LabelAlignment(c0, layer, zoom, f, label, wrappedLabel, textSize, textLineHeight) ==
  Bind([rAnchor \in {getValue(c0, layer, "layout", "text-anchor", zoom, f)} |->
  Bind([rPlacement \in {IF c0.hasImage \/ f.type = 1
                        THEN [c |-> rAnchor.c, value |-> Str("point")]
                        ELSE getValue(rAnchor.c, layer, "layout", "symbol-placement",
                                      zoom, f)} |->
    IF rPlacement.c.thrown # Undef
    THEN rPlacement.c
    ELSE
    Bind([c1 \in {SetText(rPlacement.c, [CurrentText(rPlacement.c) EXCEPT
                                           !.placement = rPlacement.value.s])} |->
    Bind([rHalo \in {getValue(c1, layer, "paint", "text-halo-width", zoom, f)} |->
    Bind([rOffset \in {getValue(rHalo.c, layer, "layout", "text-offset", zoom, f)} |->
    Bind([rTranslate \in {getValue(rOffset.c, layer, "paint", "text-translate", zoom, f)} |->
    Bind([rMaxAngle \in {IF rPlacement.value = Str("point")
                        THEN [c |-> rTranslate.c, value |-> Undef]
                        ELSE getValue(rTranslate.c, layer, "layout", "text-max-angle",
                                      zoom, f)} |->
      IF rMaxAngle.c.thrown # Undef
      THEN rMaxAngle.c
      ELSE
      LET left == StringIndexOf(rAnchor.value.s, "left") # -1
          right == ~left /\ StringIndexOf(rAnchor.value.s, "right") # -1
          hOffset == IF left THEN rHalo.value.n ELSE IF right THEN -rHalo.value.n ELSE 0
          bottom == StringIndexOf(rAnchor.value.s, "bottom") = 0
          top == ~bottom /\ StringIndexOf(rAnchor.value.s, "top") = 0
          lead == 200 * rHalo.value.n + (textLineHeight.n - 100) * textSize.n
          vOffset == IF bottom THEN -lead ELSE IF top THEN lead ELSE 0
      IN SetText(rMaxAngle.c,
           [CurrentText(rMaxAngle.c) EXCEPT
              !.textAlign = IF rPlacement.value = Str("point")
                            THEN (IF left THEN "left" ELSE IF right THEN "right"
                                  ELSE "center")
                            ELSE Undef,
              !.maxAngle = IF rPlacement.value = Str("point") THEN @
                           ELSE [angle |-> deg2rad(rMaxAngle.value.n),
                                 times |-> Len(label), over |-> Len(wrappedLabel)],
              !.textBaseline = IF bottom THEN "bottom" ELSE IF top THEN "top"
                               ELSE "middle",
              !.offsetX = [num |-> 2 * rOffset.value.items[1] * textSize.n
                                   + 200 * (hOffset + rTranslate.value.items[1]),
                           den |-> 20000],
              !.offsetY = [num |-> 2 * rOffset.value.items[2] * textSize.n
                                   + vOffset + 200 * rTranslate.value.items[2],
                           den |-> 20000]])])])])])])])])

\* The end of the label block: the fill in text-color and the halo stroke
\* in text-halo-color, both at text-opacity; the style goes above the fills
\* and strokes.
LabelColors(c0, layer, index, zoom, f) ==
  Bind([rOpacity \in {getValue(c0, layer, "paint", "text-opacity", zoom, f)} |->
  Bind([rColor \in {getValue(rOpacity.c, layer, "paint", "text-color", zoom, f)} |->
    IF rColor.c.thrown # Undef
    THEN rColor.c
    ELSE
    Bind([c3 \in {SetText(rColor.c,
              [CurrentText(rColor.c) EXCEPT
                 !.fill = [NewFill EXCEPT !.color =
                             IF Truthy(colorWithOpacity(rColor.value, rOpacity.value))
                             THEN colorWithOpacity(rColor.value, rOpacity.value)
                             ELSE Str("rgba(0,0,0,0)")]])} |->
    Bind([rHaloColor \in {getValue(c3, layer, "paint", "text-halo-color", zoom, f)} |->
      IF rHaloColor.c.thrown # Undef
      THEN rHaloColor.c
      ELSE
      Bind([haloColor \in {colorWithOpacity(rHaloColor.value, rOpacity.value)} |->
      Bind([rHaloWidth \in {IF Truthy(haloColor)
                           THEN getValue(rHaloColor.c, layer, "paint", "text-halo-width",
                                         zoom, f)
                           ELSE [c |-> rHaloColor.c, value |-> Undef]} |->
        IF rHaloWidth.c.thrown # Undef
        THEN rHaloWidth.c
        ELSE
        Bind([c4 \in {SetText(rHaloWidth.c,
                  [CurrentText(rHaloWidth.c) EXCEPT
                     !.stroke = IF Truthy(haloColor)
                                THEN [NewStroke EXCEPT !.color = haloColor,
                                                       !.width = rHaloWidth.value]
                                ELSE Undef])} |->
          PutStyle(c4, [CurrentStyle(c4) EXCEPT
                          !.zIndex = Num(SymbolZIndex(index))])])])])])])])])

\* The start of the label block: the label goes on the image's style, or on
\* the next slot when the layer gave no image; the text object the image's
\* style held is taken back, else a new one made; then its text, wrapped to
\* text-max-width unless the feature is a line, its font and its rotation.
\* Gives the state with the label, the wrapped label, the size and the line
\* height.
LabelText(c0, cl, layer, index, zoom, f, label0) ==
  Bind([c1 \in {IF c0.hasImage
               THEN c0
               ELSE Bind([n \in {NextSlot(c0, layer.id, index, zoom)} |->
                    Bind([s \in {TextSlot(n)} |->
                      PutStyle(s, [CurrentStyle(s) EXCEPT !.image = Undef,
                                                          !.geometry = Undef])])])} |->
  Bind([c2 \in {IF Truthy(CurrentText(c1))
               THEN c1
               ELSE SetText(c1, IF Truthy(c1.text) THEN c1.text ELSE NewText)} |->
  Bind([rSize \in {getValue(c2, layer, "layout", "text-size", zoom, f)} |->
  Bind([rLineHeight \in {getValue(rSize.c, layer, "layout", "text-line-height", zoom, f)} |->
  Bind([rFont \in {getValue(rLineHeight.c, layer, "layout", "text-font", zoom, f)} |->
    IF rFont.c.thrown # Undef
    THEN [c |-> rFont.c]
    ELSE
    Bind([font \in {LabelFont(rFont.c, cl, rFont.value, rSize.value)} |->
    Bind([label \in {IF Lookup(Layout(layer), "text-transform") = Str("uppercase")
                    THEN toUpperCase(label0)
                    ELSE IF Lookup(Layout(layer), "text-transform") = Str("lowercase")
                    THEN toLowerCase(label0)
                    ELSE label0} |->
    Bind([rMaxWidth \in {IF f.type = 2
                        THEN [c |-> font.c, value |-> Undef]
                        ELSE getValue(font.c, layer, "layout", "text-max-width", zoom, f)} |->
      IF rMaxWidth.c.thrown # Undef
      THEN [c |-> rMaxWidth.c]
      ELSE
      Bind([wrapped \in {IF f.type = 2
                        THEN [measureCache |-> rMaxWidth.c.measureCache, value |-> label]
                        ELSE wrapText(rMaxWidth.c.measureCache, label, font.value,
                                      rMaxWidth.value.n)} |->
      Bind([c3 \in {SetText([rMaxWidth.c EXCEPT
                              !.measureCache = wrapped.measureCache,
                              !.fonts = Append(@, [index |-> index, stack |-> rFont.value,
                                                   font |-> font.name])],
                           [CurrentText(rMaxWidth.c) EXCEPT !.text = wrapped.value,
                                                            !.font = font.value])} |->
      Bind([rRotate \in {getValue(c3, layer, "layout", "text-rotate", zoom, f)} |->
        IF rRotate.c.thrown # Undef
        THEN [c |-> rRotate.c]
        ELSE [c |-> SetText(rRotate.c, [CurrentText(rRotate.c) EXCEPT
                                          !.rotation = deg2rad(rRotate.value.n)]),
              label |-> label, wrappedLabel |-> wrapped.value,
              textSize |-> rSize.value, textLineHeight |-> rLineHeight.value]])])])])])])])])])])])

\* if (label && !skipLabel): the three parts of the label block in turn.
LabelEmission(c0, cl, layer, index, zoom, f, label0) ==
  Bind([start \in {LabelText(c0, cl, layer, index, zoom, f, label0)} |->
    IF start.c.thrown # Undef
    THEN start.c
    ELSE
    Bind([aligned \in {LabelAlignment(start.c, layer, zoom, f, start.label,
                                     start.wrappedLabel, start.textSize,
                                     start.textLineHeight)} |->
      IF aligned.thrown # Undef
      THEN aligned
      ELSE LabelColors(aligned, layer, index, zoom, f)])])

\* if ('text-field' in layout): the label is text-field with its {name}
\* templates filled in from the feature's properties; it is emitted unless
\* it is empty or the layer's icon was held back.
TextEmission(c0, cl, layer, index, zoom, f, properties) ==
  IF "text-field" \notin DOMAIN Layout(layer)
  THEN c0
  ELSE
  Bind([rField \in {getValue(c0, layer, "layout", "text-field", zoom, f)} |->
    IF rField.c.thrown # Undef
    THEN rField.c
    ELSE
    Bind([label \in {fromTemplate(rField.value.s, properties)} |->
      IF label # "" /\ ~Truthy(rField.c.skipLabel)
      THEN LabelEmission(rField.c, cl, layer, index, zoom, f, Chars(label))
      ELSE rField.c])])

\* The same test with maxzoom inclusive.
LayerSkippedPastMaxzoom(layer, zoom) ==
  \/ Lookup(Layout(layer), "visibility") = Str("none")
  \/ ("minzoom" \in DOMAIN layer /\ zoom < layer.minzoom)
  \/ ("maxzoom" \in DOMAIN layer /\ zoom > layer.maxzoom)

\* The test that skips a layer: hidden, or the zoom outside
\* [minzoom, maxzoom).
LayerSkipped(layer, zoom) ==
  \/ Lookup(Layout(layer), "visibility") = Str("none")
  \/ ("minzoom" \in DOMAIN layer /\ zoom < layer.minzoom)
  \/ ("maxzoom" \in DOMAIN layer /\ zoom >= layer.maxzoom)

\* The blocks after the line block, for a layer the feature matched: the
\* icon, the circle and the label, with hasImage, text and skipLabel fresh.
SymbolEmissions(c0, cl, layer, index, zoom, f, feature, resolution) ==
  Bind([c1 \in {[c0 EXCEPT !.hasImage = FALSE, !.text = Null, !.skipLabel = Undef]} |->
  Bind([c2 \in {IF f.type \in {1, 2} /\ "icon-image" \in DOMAIN Layout(layer)
               THEN IconEmission(c1, cl, layer, index, zoom, f, feature.properties, feature,
                                 resolution)
               ELSE c1} |->
  Bind([c3 \in {IF c2.thrown = Undef /\ f.type = 1 /\ "circle-radius" \in DOMAIN Paint(layer)
               THEN CircleEmission(c2, layer, index, zoom, f)
               ELSE c2} |->
    IF c3.thrown = Undef
    THEN TextEmission(c3, cl, layer, index, zoom, f, feature.properties)
    ELSE c3])])])

\* The body of the layer loop for one candidate layer: the visibility and
\* zoom range test, the styleIds bucket, the filter, the emissions.
StyleLayer(c, cl, layerData, zoom, f, feature, resolution) ==
  IF c.thrown # Undef \/ LayerSkipped(layerData.layer, zoom)
  THEN c
  ELSE
  Bind([c1 \in {[c EXCEPT !.styleIds = IF zoom \in DOMAIN @ THEN @ ELSE Assign(@, zoom, << >>)]} |->
  Bind([rFilter \in {IF "filter" \in DOMAIN layerData.layer
       THEN evaluateFilter(c1, layerData.layer.id, layerData.layer.filter, f, zoom)
       ELSE [c |-> c1, value |-> TRUE]} |->
    IF rFilter.c.thrown # Undef \/ ~rFilter.value
    THEN rFilter.c
    ELSE
    Bind([c3 \in {IF f.type = 3 /\ layerData.layer.type = "fill"
         THEN FillEmission(rFilter.c, cl, layerData.layer, layerData.index, zoom, f,
                           feature.properties)
         ELSE rFilter.c} |->
    Bind([c4 \in {IF c3.thrown = Undef /\ f.type # 1 /\ layerData.layer.type = "line"
         THEN LineEmission(c3, layerData.layer, layerData.index, zoom, f)
         ELSE c3} |->
      IF c4.thrown = Undef
      THEN SymbolEmissions(c4, cl, layerData.layer, layerData.index, zoom, f, feature,
                           resolution)
      ELSE c4])])])])

\* for (let i = 0, ii = layers.length; i < ii; ++i): the layers from the
\* i-th on, in stored order.
RECURSIVE StyleLayers(_, _, _, _, _, _, _, _)
StyleLayers(c, cl, layers, i, zoom, f, feature, resolution) ==
  IF i > Len(layers)
  THEN c
  ELSE Bind([next \in {StyleLayer(c, cl, layers[i], zoom, f, feature, resolution)} |->
         StyleLayers(next, cl, layers, i + 1, zoom, f, feature, resolution)])

\* Math.floor of a number kept in hundredths, where the code rounds.
MathFloor(hundredths) == hundredths \div 100

\* Math.round of a number kept in hundredths.
MathRound(hundredths) == (hundredths + 50) \div 100

\* A resolution is kept as its place on the logarithmic scale of the default
\* pyramid, 100 * log2(78271.51696402048 / resolution): level z has 100 * z.
\* getZoomForResolution (util.js): the fractional zoom, in hundredths, of a
\* resolution interpolated between the two levels around it; the last level
\* for a resolution finer than all.
getZoomForResolution(resolution, resolutions) ==
  LET finer == {i \in 1..(Len(resolutions) - 1) : resolutions[i] > resolution}
  IN IF finer = {}
     THEN 100 * (Len(resolutions) - 1)
     ELSE LET i == CHOOSE a \in finer : \A b \in finer : a <= b
          IN 100 * (i - 1) + (100 * (resolution - resolutions[i]))
                               \div (resolutions[i + 1] - resolutions[i])

\* The zoom of a call: the index of the resolution in the list, else the
\* rounded interpolated zoom.
ResolveZoom(resolution, resolutions) ==
  IF ArrayIndexOf(resolutions, resolution) # -1
  THEN ArrayIndexOf(resolutions, resolution)
  ELSE MathRound(getZoomForResolution(resolution, resolutions))

\* The styles array left at the length earlier calls gave it.
TruncateNever(c) == c

\* styles.length = stylesLength + 1.
Truncate(c) == [c EXCEPT !.styles = SubSeq(@, 1, c.stylesLength + 1)]

\* styleFunction(feature, resolution) on the caches and the closure cl, for
\* a feature whose styleIds are styleIds: the state the call leaves, whether
\* it returns or throws.
styleFunction(fc, flc, zo, fm, cl, styleIds, feature, resolution) ==
  Bind([c0 \in {[functionCache |-> fc, filterCache |-> flc, zoomObj |-> zo, fontMap |-> fm,
        iconImageCache |-> cl.iconImageCache, measureCache |-> cl.measureCache,
        made |-> << >>, fonts |-> << >>, hasImage |-> FALSE, text |-> Null, skipLabel |-> Undef,
        styles |-> cl.styles, stylesLength |-> -1,
        styleIds |-> IF Truthy(styleIds) THEN styleIds.ids ELSE emptyObj,
        patternCache |-> cl.patternCache, thrown |-> Undef, failed |-> Undef,
        emitted |-> << >>, evals |-> {}, zoom |-> Undef]} |->
  Bind([key \in {PropertyKey(Lookup(feature.properties, "layer"))} |->
    IF key \notin DOMAIN cl.layersBySourceLayer
    THEN c0
    ELSE
    Bind([zoom \in {ResolveZoom(resolution, cl.resolutions)} |->
    Bind([f \in {[properties |-> feature.properties, type |-> types(feature.geometry.type)]} |->
    Bind([c \in {StyleLayers([c0 EXCEPT !.zoom = Num(zoom)], cl, cl.layersBySourceLayer[key], 1,
                     zoom, f, feature, resolution)} |->
      IF c.thrown = Undef /\ c.stylesLength > -1
      THEN Truncate(c)
      ELSE c])])])])])

---------------------------------------------------------------------------
(* Construction: the default export of stylefunction.js.                  *)

\* The resolutions of the default pyramid, each half the one before, from
\* 78271.51696402048.
DefaultResolutions == [i \in 1..NumLevels |-> 100 * (i - 1)]

\* The style version the function accepts.
SupportedVersion == 8

\* A check that rejects only versions below 8.
VersionBelow(version) == version.t = "number" /\ version.n < 8

\* glStyle.version != 8, with the loose comparison's coercion of a numeric
\* string.
VersionMismatch(version) ==
  ~(\/ version = Num(SupportedVersion)
    \/ (version.t = "string" /\ version.s = "8"))

\* JSON.parse of a style given as text: the document the text denotes, or a
\* SyntaxError.
JSONParse(text) ==
  IF text.denotes = Undef
  THEN [thrown |-> [t |-> "SyntaxError"], value |-> Undef]
  ELSE [thrown |-> Undef, value |-> text.denotes]

\* derefLayers: a layer with "ref" takes type, source, source-layer,
\* minzoom, maxzoom, filter and layout from the layer it names.
refProperties == {"type", "source", "source-layer", "minzoom", "maxzoom", "filter", "layout"}

derefLayers(layers) ==
  LET Parent(layer) == layers[CHOOSE i \in 1..Len(layers) : layers[i].id = layer.ref]
      Deref(layer) ==
        IF "ref" \in DOMAIN layer
        THEN [k \in (DOMAIN layer \ {"ref"}) \cup (refProperties \cap DOMAIN Parent(layer)) |->
                IF k \in refProperties \cap DOMAIN Parent(layer)
                THEN Parent(layer)[k] ELSE layer[k]]
        ELSE layer
  IN [i \in 1..Len(layers) |-> Deref(layers[i])]

\* typeof source == 'string' && layer.source == source ||
\* source.indexOf(layerId) !== -1
Selected(layer, source) ==
  \/ (source.t = "string" /\ layer.source = source.s)
  \/ (IF source.t = "string"
      THEN StringIndexOf(source.s, layer.id)
      ELSE ArrayIndexOf(source.items, layer.id)) # -1

\* The layer resolution loop over allLayers: the selected layers grouped by
\* source-layer with their index in allLayers, their ids, the first
\* selected layer's source.
RECURSIVE ResolveLayers(_, _, _, _)
ResolveLayers(allLayers, source, i, acc) ==
  IF i > Len(allLayers)
  THEN acc
  ELSE
  Bind([sourceLayer \in {IF "source-layer" \in DOMAIN allLayers[i]
       THEN allLayers[i]["source-layer"] ELSE "undefined"} |->
  Bind([next \in {IF Selected(allLayers[i], source)
       THEN [layersBySourceLayer |->
               Assign(acc.layersBySourceLayer, sourceLayer,
                      Append(IF sourceLayer \in DOMAIN acc.layersBySourceLayer
                             THEN acc.layersBySourceLayer[sourceLayer] ELSE << >>,
                             [layer |-> allLayers[i], index |-> i - 1])),
             mapboxLayers |-> Append(acc.mapboxLayers, allLayers[i].id),
             mapboxSource |-> IF Truthy(acc.mapboxSource)
                              THEN acc.mapboxSource ELSE Str(allLayers[i].source)]
       ELSE acc} |->
    ResolveLayers(allLayers, source, i + 1, next)])])

\* The caches left as they are.
InvalidateNothing(cache, allLayers) == cache

\* delete cache[layerId] for every layer of allLayers.
Invalidate(cache, allLayers) ==
  [id \in DOMAIN cache \ {allLayers[i].id : i \in 1..Len(allLayers)} |-> cache[id]]

\* The most sprite images that may still be loading for style functions
\* already replaced on one layer.
MaxOrphanLoads == 1

\* stylefunction(olLayer, glStyle, source, resolutions, spriteData,
\* spriteImageUrl, spriteImage, fonts): throws on unparsable text and on a version
\* mismatch; else starts the sprite image load when only the url is given,
\* resolves the layers, deletes the cache entries of every layer id of the
\* document, installs the style function and tags the layer.
Construct(o, glStyle, source, resolutions, spriteData, spriteImageUrl, spriteImage, fonts) ==
  \E parsed \in {IF glStyle.t = "string" THEN JSONParse(glStyle)
                  ELSE [thrown |-> Undef, value |-> glStyle]} :
  \E thrown \in {IF parsed.thrown # Undef THEN parsed.thrown
                  ELSE IF VersionMismatch(Lookup(parsed.value, "version"))
                  THEN [t |-> "Error", message |-> "glStyle version 8 required."]
                  ELSE Undef} :
  \E orphaned \in {closure[o] # Null /\ closure[o].loading} :
     /\ (thrown = Undef /\ orphaned) => olLayer[o].orphanLoads < MaxOrphanLoads
     /\ lastOp' = [op |-> "construct", o |-> o, asText |-> glStyle.t = "string",
                   parsed |-> parsed.thrown = Undef,
                   version |-> IF parsed.thrown # Undef THEN Undef
                               ELSE Lookup(parsed.value, "version"),
                   source |-> source, spriteImageUrl |-> spriteImageUrl,
                   spriteImage |-> spriteImage, thrown |-> thrown]
     /\ IF thrown # Undef
        THEN UNCHANGED <<functionCache, filterCache, zoomObj, fontMap, closure, olLayer, featureStyleIds>>
        ELSE \E allLayers \in {derefLayers(parsed.value.layers)} :
             \E resolved \in {ResolveLayers(allLayers, source, 1,
                                 [layersBySourceLayer |-> emptyObj, mapboxLayers |-> << >>,
                                  mapboxSource |-> Undef])} :
             /\ functionCache' = Invalidate(functionCache, allLayers)
             /\ filterCache' = Invalidate(filterCache, allLayers)
             /\ closure' = [closure EXCEPT ![o] =
                  [resolutions |-> IF Truthy(resolutions) THEN resolutions.items
                                   ELSE DefaultResolutions,
                   spriteData |-> spriteData,
                   spriteImage |-> spriteImage,
                   loading |-> Truthy(spriteImageUrl) /\ ~Truthy(spriteImage),
                   allLayers |-> allLayers,
                   source |-> source,
                   dropped |-> [k \in DOMAIN filterCache
                                  \cap {allLayers[i].id : i \in 1..Len(allLayers)} |->
                                  filterCache[k]],
                   layersBySourceLayer |-> resolved.layersBySourceLayer,
                   styles |-> << >>,
                   patternCache |-> emptyObj,
                   iconImageCache |-> emptyObj,
                   measureCache |-> emptyObj,
                   built |-> {},
                   fonts |-> fonts]]
             /\ olLayer' = [olLayer EXCEPT ![o] =
                  [style |-> [t |-> "function", of |-> o],
                   mapboxSource |-> resolved.mapboxSource,
                   mapboxLayers |-> Arr(resolved.mapboxLayers),
                   orphanLoads |-> IF orphaned THEN @.orphanLoads + 1 ELSE @.orphanLoads]]
             /\ UNCHANGED <<zoomObj, fontMap, featureStyleIds>>

\* img.onload of the style function installed on o: the image becomes the
\* sprite image and the layer is told it changed.
ImgOnload(o) ==
  /\ closure[o] # Null
  /\ closure[o].loading
  /\ closure' = [closure EXCEPT ![o].loading = FALSE,
                                ![o].spriteImage = [t |-> "image"]]
  /\ lastOp' = [op |-> "onload", o |-> o, changed |-> 1]
  /\ UNCHANGED <<functionCache, filterCache, zoomObj, fontMap, olLayer, featureStyleIds>>

\* img.onload of a style function that was replaced on o while its image
\* was loading: only the change notification is seen.
OrphanOnload(o) ==
  /\ olLayer[o].orphanLoads > 0
  /\ olLayer' = [olLayer EXCEPT ![o].orphanLoads = @ - 1]
  /\ lastOp' = [op |-> "onload", o |-> o, changed |-> 1]
  /\ UNCHANGED <<functionCache, filterCache, zoomObj, fontMap, closure, featureStyleIds>>

\* The call wrapText(label, font, textMaxWidth) the label block makes for
\* a point or a polygon, on the measureCache of the style function built
\* for o, while that cache holds no other label.
WrapText(o, text, font, em) ==
  /\ closure[o] # Null
  /\ DOMAIN closure[o].measureCache \subseteq {MeasureKey(text, font, em)}
  /\ \E wrapped \in {wrapText(closure[o].measureCache, text, font, em)} :
        /\ closure' = [closure EXCEPT ![o].measureCache = wrapped.measureCache]
        /\ lastOp' = [op |-> "wrapText", o |-> o, text |-> text, em |-> em,
                      hit |-> wrapped.measureCache = closure[o].measureCache,
                      returned |-> wrapped.value, thrown |-> Undef]
  /\ UNCHANGED <<functionCache, filterCache, zoomObj, fontMap, olLayer, featureStyleIds>>

\* fromTemplate(text, properties) step by step, as the label and icon
\* blocks call it; lastOp holds the text, the match and the position in the
\* do-while loop.  Nothing else runs while the loop does.
TemplateRunning == lastOp.op = "fromTemplate" /\ lastOp.pc # "return"

\* The call: text and properties bound, the loop entered.
TemplateStart(text, properties) ==
  /\ ~TemplateRunning
  /\ lastOp' = [op |-> "fromTemplate", pc |-> "match", given |-> text, text |-> text,
                properties |-> properties, parts |-> << >>]
  /\ UNCHANGED <<functionCache, filterCache, zoomObj, fontMap, closure, olLayer,
                 featureStyleIds>>

\* One statement of the loop: parts = text.match(templateRegEx), which
\* leaves the loop when nothing matches, or text = parts[1] + (properties[
\* parts[2]] || '') + parts[3], which goes back to the match.
TemplateLoop ==
  /\ TemplateRunning
  /\ lastOp' =
       IF lastOp.pc = "match"
       THEN [lastOp EXCEPT !.parts = IF HasPlaceholder(lastOp.text)
                                     THEN MatchChars(lastOp.text) ELSE << >>,
                           !.pc = IF HasPlaceholder(lastOp.text)
                                  THEN "replace" ELSE "return"]
       ELSE [lastOp EXCEPT !.text = lastOp.parts[1]
                                      \o (IF lastOp.parts[2] \in DOMAIN lastOp.properties
                                          THEN lastOp.properties[lastOp.parts[2]]
                                          ELSE << >>)
                                      \o lastOp.parts[3],
                           !.pc = "match"]
  /\ UNCHANGED <<functionCache, filterCache, zoomObj, fontMap, closure, olLayer,
                 featureStyleIds>>

\* A call styleFunction(feature, resolution) of the style function built
\* for o.
Call(o, feature, resolution) ==
  /\ closure[o] # Null
  /\ \E c \in {styleFunction(functionCache, filterCache, zoomObj, fontMap, closure[o],
                              featureStyleIds[feature.id], feature, resolution)} :
        /\ functionCache' = c.functionCache
        /\ filterCache' = c.filterCache
        /\ zoomObj' = c.zoomObj
        /\ fontMap' = c.fontMap
        /\ closure' = [closure EXCEPT ![o].styles = c.styles,
                                      ![o].patternCache = c.patternCache,
                                      ![o].iconImageCache = c.iconImageCache,
                                      ![o].measureCache = c.measureCache,
                                      ![o].built = @ \cup
                                         {[kind |-> c.made[k].kind, tuple |-> c.made[k].tuple] :
                                            k \in {j \in 1..Len(c.made) : ~c.made[j].reused}}]
        /\ featureStyleIds' = [featureStyleIds EXCEPT ![feature.id] =
                                 [t |-> "object", ids |-> c.styleIds]]
        /\ lastOp' = [op |-> "call", o |-> o, feature |-> feature.id,
                      resolution |-> resolution, zoom |-> c.zoom, thrown |-> c.thrown,
                      failed |-> c.failed,
                      returned |-> IF c.thrown = Undef /\ c.stylesLength > -1
                                   THEN Arr(c.styles) ELSE Undef,
                      emitted |-> c.emitted, evals |-> c.evals,
                      made |-> c.made, fonts |-> c.fonts,
                      icons |-> c.iconImageCache,
                      cached |-> DOMAIN closure[o].iconImageCache,
                      built |-> closure[o].built,
                      had |-> Len(closure[o].styles),
                      again |-> /\ lastOp.op = "call"
                                /\ lastOp.thrown = Undef
                                /\ <<lastOp.o, lastOp.feature, lastOp.resolution>>
                                     = <<o, feature.id, resolution>>,
                      before |-> IF lastOp.op = "call" THEN lastOp.returned ELSE Undef]
        /\ UNCHANGED olLayer

---------------------------------------------------------------------------
(* The documents, selectors, sprites, features and resolutions the        *)
(* specifications draw their inputs from.                                  *)

\* A fill in plain red: fill-color only.
Land ==
  [id |-> "land", type |-> "fill", source |-> "osm",
   paint |-> ("fill-color" :> Str("red"))] @@ ("source-layer" :> "poly")

\* A filtered fill in blue with fill-antialias: true.
Water ==
  [id |-> "water", type |-> "fill", source |-> "osm",
   filter |-> Filter("==", "kind", Str("w")),
   paint |-> ("fill-color" :> Str("blue")) @@ ("fill-antialias" :> Bool(TRUE))]
  @@ ("source-layer" :> "poly")

\* The same layer id with another filter and another color: the document
\* after an edit.
WaterEdited ==
  [Water EXCEPT !.filter = Filter("==", "kind", Str("x")),
                !.paint = ("fill-color" :> Str("red")) @@ ("fill-antialias" :> Bool(TRUE))]

\* A dashed line between zoom 5 and 10.
Road ==
  [id |-> "road", type |-> "line", source |-> "osm", minzoom |-> 5, maxzoom |-> 10,
   layout |-> ("line-cap" :> Str("round")),
   paint |-> ("line-color" :> Str("red")) @@ ("line-width" :> Num(2))
             @@ ("line-dasharray" :> Arr(<<2, 1>>))] @@ ("source-layer" :> "poly")

\* A line of another source, with no source-layer, whose id occurs in "osm".
Os ==
  [id |-> "os", type |-> "line", source |-> "geo",
   paint |-> ("line-color" :> Str("blue"))]

\* A fill that is transparent inside and outlined in red.
Rim ==
  [id |-> "rim", type |-> "fill", source |-> "osm",
   paint |-> ("fill-color" :> Str("transparent")) @@ ("fill-outline-color" :> Str("red"))]
  @@ ("source-layer" :> "poly")

\* A fill whose color is a malformed expression: ["get"] with no argument.
LandMalformed == [Land EXCEPT !.paint = ("fill-color" :> Expr("get", << >>))]

\* A fill with a malformed filter: an unknown operator.
WaterMalformed == [Water EXCEPT !.filter = Filter("within?", "kind", Str("w"))]

\* A fill whose color is a well-formed expression of the zoom.
Shore ==
  [id |-> "shore", type |-> "fill", source |-> "osm",
   paint |-> ("fill-color" :> Expr("step", <<Str("red"), 5, Str("blue")>>))]
  @@ ("source-layer" :> "poly")

\* A hidden fill.
Hidden ==
  [id |-> "hidden", type |-> "fill", source |-> "osm",
   layout |-> ("visibility" :> Str("none")),
   paint |-> ("fill-color" :> Str("blue"))] @@ ("source-layer" :> "poly")

\* The main document: a dashed line, an outlined transparent fill, a plain
\* fill, and a filtered fill with fill-antialias.
StyleA == [version |-> Num(8), layers |-> <<Road, Rim, Land, Water>>]

\* Documents of other versions, of none, and of version "8" as a string.
StyleV7 == [StyleA EXCEPT !.version = Num(7)]
StyleV9 == [StyleA EXCEPT !.version = Num(9)]
StyleV8String == [StyleA EXCEPT !.version = Str("8")]
StyleNoVersion == [layers |-> StyleA.layers]

\* A document with a zoom range and a hidden layer.
StyleZoom == [version |-> Num(8), layers |-> <<Road, Hidden, Land>>]

\* A fill in blue with fill-antialias: false, and a document with fills
\* without fill-antialias, with fill-antialias: true and with
\* fill-antialias: false.
Pond ==
  [id |-> "pond", type |-> "fill", source |-> "osm",
   paint |-> ("fill-color" :> Str("blue")) @@ ("fill-antialias" :> Bool(FALSE))]
  @@ ("source-layer" :> "poly")
StyleAntialias == [version |-> Num(8), layers |-> <<Land, Water, Pond>>]

\* A red fill outlined in the color the feature names, and a document with
\* it between a plain fill and a fill of literal outline.
Edge ==
  [id |-> "edge", type |-> "fill", source |-> "osm",
   paint |-> ("fill-color" :> Str("red"))
             @@ ("fill-outline-color" :> Expr("get", <<"edge">>))]
  @@ ("source-layer" :> "poly")
StyleOutline == [version |-> Num(8), layers |-> <<Land, Edge, Rim>>]

\* A document, and the document after an edit of the layer "water".
StyleB == [version |-> Num(8), layers |-> <<Land, Water>>]
StyleBEdited == [version |-> Num(8), layers |-> <<Land, WaterEdited>>]

\* A document with a layer of a second source.
StyleTwoSources == [version |-> Num(8), layers |-> <<Land, Os, Water>>]

\* Documents with a malformed fill-color and with a malformed filter.
StyleBadColor == [version |-> Num(8), layers |-> <<Shore, Water, LandMalformed>>]
StyleBadFilter == [version |-> Num(8), layers |-> <<Shore, WaterMalformed>>]

\* A style given as an object, and as JSON text; text that is not JSON.
AsObject(doc) == [t |-> "object"] @@ doc
AsText(doc) == [t |-> "string", denotes |-> doc]
NotJSON == [t |-> "string", denotes |-> Undef]

\* The sprite sheet's index: one icon.
SpriteData ==
  [t |-> "object",
   icons |-> ("park" :> [t |-> "object", x |-> 0, y |-> 0, width |-> 16, height |-> 16,
                         pixelRatio |-> 1])]

\* Features: their id, properties and geometry.
PolygonW ==
  [id |-> "polygonW", properties |-> ("layer" :> Str("poly")) @@ ("kind" :> Str("w")),
   geometry |-> [type |-> "Polygon"]]
PolygonX ==
  [id |-> "polygonX", properties |-> ("layer" :> Str("poly")) @@ ("kind" :> Str("x")),
   geometry |-> [type |-> "Polygon"]]
LineGeo ==
  [id |-> "lineGeo", properties |-> ("kind" :> Str("x")),
   geometry |-> [type |-> "LineString"]]
Features == {PolygonW, PolygonX, LineGeo}

\* The sprite sheet's index with three icons, one of them named with a dot.
SpriteSheet ==
  [t |-> "object",
   icons |-> ("park" :> [t |-> "object", x |-> 0, y |-> 0, width |-> 16, height |-> 16,
                         pixelRatio |-> 1])
             @@ ("a" :> [t |-> "object", x |-> 16, y |-> 0, width |-> 16, height |-> 16,
                         pixelRatio |-> 1])
             @@ ("a.1" :> [t |-> "object", x |-> 32, y |-> 0, width |-> 16, height |-> 16,
                           pixelRatio |-> 1])]

\* A loaded sprite image.
SpriteImage == [t |-> "image"]

\* A red line 2 wide, and a blue line 1 wide.
Track ==
  [id |-> "track", type |-> "line", source |-> "osm",
   paint |-> ("line-color" :> Str("red")) @@ ("line-width" :> Num(2))]
  @@ ("source-layer" :> "poi")
Rail ==
  [id |-> "rail", type |-> "line", source |-> "osm",
   paint |-> ("line-color" :> Str("blue"))] @@ ("source-layer" :> "poi")

\* A line of width 0, one of a negative width, and a patterned line.
Ditch ==
  [id |-> "ditch", type |-> "line", source |-> "osm",
   paint |-> ("line-color" :> Str("blue")) @@ ("line-width" :> Num(0))
             @@ ("line-opacity" :> Num(50))] @@ ("source-layer" :> "poi")
Trench ==
  [id |-> "trench", type |-> "line", source |-> "osm",
   paint |-> ("line-color" :> Str("red")) @@ ("line-width" :> Num(-1))]
  @@ ("source-layer" :> "poi")
Hatch ==
  [id |-> "hatch", type |-> "line", source |-> "osm",
   paint |-> ("line-color" :> Str("red")) @@ ("line-pattern" :> Str("park"))
             @@ ("line-width" :> Num(3))] @@ ("source-layer" :> "poi")

\* A symbol layer with the icon the feature names, and the feature's kind
\* as its label.
Marker ==
  [id |-> "marker", type |-> "symbol", source |-> "osm",
   layout |-> ("icon-image" :> Str("{icon}")) @@ ("text-field" :> Str("{kind}"))]
  @@ ("source-layer" :> "poi")

\* A symbol layer with a label only.
Name ==
  [id |-> "name", type |-> "symbol", source |-> "osm",
   layout |-> ("text-field" :> Str("{kind}")) @@ ("text-font" :> Arr(<<"Serif", "Mono">>))]
  @@ ("source-layer" :> "poi")

\* A document of lines and symbols.
StyleLines ==
  [version |-> Num(8), layers |-> <<Track, Ditch, Hatch, Marker, Rail, Name, Trench>>]

\* Lines by their extent, in map units: one long and flat, one whose sides
\* are short and whose diagonal is long, one short, and one long whose
\* geometry gives no flat midpoint.
LineLong ==
  [id |-> "lineLong", properties |-> ("layer" :> Str("poi")) @@ ("kind" :> Str("w"))
                                      @@ ("icon" :> Str("park")),
   geometry |-> [type |-> "LineString", extent |-> <<0, 0, 40000, 0>>,
                 getFlatMidpoint |-> TRUE]]
LineSquare ==
  [id |-> "lineSquare", properties |-> ("layer" :> Str("poi")) @@ ("kind" :> Str("x"))
                                        @@ ("icon" :> Str("park")),
   geometry |-> [type |-> "LineString", extent |-> <<1000, 1000, 25000, 25000>>,
                 getFlatMidpoint |-> TRUE]]
LineShort ==
  [id |-> "lineShort", properties |-> ("layer" :> Str("poi")) @@ ("kind" :> Str("w"))
                                       @@ ("icon" :> Str("park")),
   geometry |-> [type |-> "MultiLineString", extent |-> <<0, 0, 9000, 12000>>,
                 getFlatMidpoint |-> TRUE]]
LineNoMidpoint ==
  [id |-> "lineNoMidpoint", properties |-> ("layer" :> Str("poi")) @@ ("kind" :> Str("x"))
                                            @@ ("icon" :> Str("park")),
   geometry |-> [type |-> "LineString", extent |-> <<0, 0, 40000, 0>>,
                 getFlatMidpoint |-> FALSE]]
LineFeatures == {LineLong, LineSquare, LineShort, LineNoMidpoint}

\* A red fill; a circle whose stroke width is the feature's ring; a symbol
\* layer whose icon, icon size, rotation and opacity are the feature's, with
\* the feature's kind as its label; and a second circle of fixed paint.
Area ==
  [id |-> "area", type |-> "fill", source |-> "osm",
   paint |-> ("fill-color" :> Str("red"))] @@ ("source-layer" :> "poi")
Dot ==
  [id |-> "dot", type |-> "circle", source |-> "osm",
   paint |-> ("circle-radius" :> Num(500)) @@ ("circle-color" :> Str("red"))
             @@ ("circle-stroke-width" :> Expr("get", <<"ring">>))]
  @@ ("source-layer" :> "poi")
Pin ==
  [id |-> "pin", type |-> "symbol", source |-> "osm",
   layout |-> ("icon-image" :> Str("{icon}")) @@ ("icon-size" :> Expr("get", <<"size">>))
              @@ ("icon-rotate" :> Expr("get", <<"turn">>))
              @@ ("text-field" :> Str("{kind}")),
   paint |-> ("icon-opacity" :> Expr("get", <<"fade">>))]
  @@ ("source-layer" :> "poi")
Ring ==
  [id |-> "ring", type |-> "circle", source |-> "osm",
   paint |-> ("circle-radius" :> Num(500)) @@ ("circle-color" :> Str("red"))]
  @@ ("source-layer" :> "poi")

\* A symbol layer with the icon of Pin, turned by 45 degrees and opaque.
Flag ==
  [id |-> "flag", type |-> "symbol", source |-> "osm",
   layout |-> ("icon-image" :> Str("{icon}")) @@ ("icon-size" :> Expr("get", <<"size">>))
              @@ ("icon-rotate" :> Num(4500))]
  @@ ("source-layer" :> "poi")

\* A document of two symbol layers with the same icon.
StyleIcons == [version |-> Num(8), layers |-> <<Pin, Flag>>]

\* A document of a fill, a line, circles and symbols, the last a label only.
StylePoints == [version |-> Num(8), layers |-> <<Area, Track, Dot, Pin, Ring, Name>>]

\* The properties of a feature of source layer "poi".
PoiProperties(kind, icon, size, turn, fade, ring) ==
  ("layer" :> Str("poi")) @@ ("kind" :> Str(kind)) @@ ("icon" :> Str(icon))
  @@ ("size" :> Num(size)) @@ ("turn" :> Num(turn)) @@ ("fade" :> Num(fade))
  @@ ("ring" :> Num(ring))

\* Points: one with icon "a" at size 1.5 and no ring, one with icon "a.1" at
\* size 5 and a ring 2 wide, one like the first but turned and faded, and
\* one with the park icon and a ring of a negative width; a polygon and a
\* long line with the park icon.  PointFeatures are the points, RoleFeatures
\* a feature of every geometry type.
PointPlain ==
  [id |-> "pointPlain", properties |-> PoiProperties("w", "a", 150, 0, 100, 0),
   geometry |-> [type |-> "Point"]]
PointDotted ==
  [id |-> "pointDotted", properties |-> PoiProperties("x", "a.1", 500, 0, 100, 200),
   geometry |-> [type |-> "Point"]]
PointTurned ==
  [id |-> "pointTurned", properties |-> PoiProperties("w", "a", 150, 9000, 50, 0),
   geometry |-> [type |-> "MultiPoint"]]
PointPark ==
  [id |-> "pointPark", properties |-> PoiProperties("x", "park", 100, 0, 100, -100),
   geometry |-> [type |-> "Point"]]
PolygonPark ==
  [id |-> "polygonPark", properties |-> PoiProperties("w", "park", 100, 0, 100, 0),
   geometry |-> [type |-> "Polygon"]]
LinePark ==
  [id |-> "linePark", properties |-> PoiProperties("x", "park", 100, 0, 100, 0),
   geometry |-> [type |-> "LineString", extent |-> <<0, 0, 40000, 0>>,
                 getFlatMidpoint |-> TRUE]]
PointFeatures == {PointPlain, PointDotted, PointTurned, PointPark}
RoleFeatures == {PointPark, PolygonPark, LinePark, PointDotted}

\* Every feature of the specifications.
\* A fill in the pattern of the icon the feature names; a point whose icon
\* the sprite sheet does not have; and a sprite image fetched by the caller.
Meadow ==
  [id |-> "meadow", type |-> "fill", source |-> "osm",
   paint |-> ("fill-pattern" :> Str("{icon}"))] @@ ("source-layer" :> "poi")
StyleSprite == [version |-> Num(8), layers |-> <<Meadow, Pin>>]
PointLost ==
  [id |-> "pointLost", properties |-> PoiProperties("x", "lost", 100, 0, 100, 0),
   geometry |-> [type |-> "Point"]]
SpritePrefetched == [t |-> "image", src |-> Str("sheet.png")]
SpriteFeatures == {PolygonPark, PointPark, PointLost}

\* A polygon that names the color of its outline.
PolygonEdged ==
  [id |-> "polygonEdged",
   properties |-> ("layer" :> Str("poly")) @@ ("kind" :> Str("w")) @@ ("edge" :> Str("blue")),
   geometry |-> [type |-> "Polygon"]]
OutlineFeatures == {PolygonW, PolygonEdged, LineGeo}

AllFeatures ==
  Features \cup LineFeatures \cup PointFeatures \cup RoleFeatures \cup SpriteFeatures
  \cup OutlineFeatures

---------------------------------------------------------------------------
(* The specification: one OpenLayers layer, styles constructed for it from *)
(* the documents above, and calls of the installed style function.        *)

OlLayers == {"layer"}

\* Two OpenLayers layers of one page, each with a style function of its own.
TwinLayers == {"layer", "twin"}

Init ==
  /\ functionCache = emptyObj
  /\ filterCache = emptyObj
  /\ zoomObj = [zoom |-> 0]
  /\ fontMap = emptyObj
  /\ closure = [o \in TwinLayers |-> Null]
  /\ olLayer = [o \in TwinLayers |->
                  [style |-> Null, mapboxSource |-> Undef, mapboxLayers |-> Undef,
                   orphanLoads |-> 0]]
  /\ featureStyleIds = [x \in {f.id : f \in AllFeatures} |-> Undef]
  /\ lastOp = [op |-> "init"]

Next ==
  \/ \E o \in OlLayers :
       Construct(o, AsObject(StyleA), Str("osm"), Undef, Undef, Undef, Undef, Undef)
  \/ \E o \in OlLayers : \E feature \in Features : \E resolution \in {400, 500} :
       Call(o, feature, resolution)

Spec == Init /\ [][Next]_vars

\* Styles of every version, as objects and as text, with and without a
\* sprite image to load.
NextVersion ==
  \/ \E o \in OlLayers :
     \E glStyle \in {AsObject(StyleA), AsObject(StyleV8String), AsObject(StyleV7),
                      AsObject(StyleNoVersion), AsText(StyleA), AsText(StyleV9), NotJSON} :
     \E spriteImageUrl \in {Undef, Str("sprite.png")} :
       Construct(o, glStyle, Str("osm"), Undef, SpriteData, spriteImageUrl, Undef, Undef)
  \/ \E o \in OlLayers : ImgOnload(o)
  \/ \E o \in OlLayers : OrphanOnload(o)
  \/ \E o \in OlLayers : Call(o, PolygonW, 500)

SpecVersion == Init /\ [][NextVersion]_vars

\* Calls at resolutions on, and between, the levels around a zoom range.
ZoomResolutions == {400, 449, 450, 500, 900, 949, 950, 999, 1000}

NextZoom ==
  \/ \E o \in OlLayers :
       Construct(o, AsObject(StyleZoom), Str("osm"), Undef, Undef, Undef, Undef, Undef)
  \/ \E o \in OlLayers : \E resolution \in ZoomResolutions :
       Call(o, PolygonX, resolution)

SpecZoom == Init /\ [][NextZoom]_vars

\* A document, and the document edited, constructed in turn.
NextEdit ==
  \/ \E o \in OlLayers : \E doc \in {StyleB, StyleBEdited} :
       Construct(o, AsObject(doc), Str("osm"), Undef, Undef, Undef, Undef, Undef)
  \/ \E o \in OlLayers : \E feature \in {PolygonW, PolygonX} :
       Call(o, feature, 400)

SpecEdit == Init /\ [][NextEdit]_vars

\* Lines of several extents at the two finest levels, and a polygon, styled
\* with strokes, icons and labels.
LineCalls ==
  {<<LineLong, 1900>>, <<LineLong, 2000>>, <<LineSquare, 2000>>, <<LineShort, 2000>>,
   <<LineNoMidpoint, 2000>>, <<PolygonPark, 2000>>}

NextLines ==
  \/ \E o \in OlLayers :
       Construct(o, AsObject(StyleLines), Str("osm"), Undef, SpriteSheet, Undef, SpriteImage,
                 Undef)
  \/ \E o \in OlLayers : \E call \in LineCalls : Call(o, call[1], call[2])

SpecLines == Init /\ [][NextLines]_vars

\* Lists of available fonts given at construction, and none.
FontLists == {Undef, Arr(<<"Mono">>), Arr(<<"Mono", "Sans">>), Arr(<<"a">>)}

\* Styles constructed with and without a list of available fonts, and the
\* labels of a long and a short line at the two finest levels.
FontCalls == {<<LineLong, 2000>>, <<LineLong, 1900>>, <<LineShort, 2000>>}

NextFonts ==
  \/ \E o \in OlLayers : \E fonts \in FontLists :
       Construct(o, AsObject(StyleLines), Str("osm"), Undef, SpriteSheet, Undef, SpriteImage,
                 fonts)
  \/ \E o \in OlLayers : \E call \in FontCalls : Call(o, call[1], call[2])

SpecFonts == Init /\ [][NextFonts]_vars

\* Points at the finest level, styled with circles, icons and labels.
NextPoints ==
  \/ \E o \in OlLayers :
       Construct(o, AsObject(StylePoints), Str("osm"), Undef, SpriteSheet, Undef, SpriteImage,
                 Undef)
  \/ \E o \in OlLayers : \E feature \in PointFeatures : Call(o, feature, 2000)

SpecPoints == Init /\ [][NextPoints]_vars

\* A point, a polygon and a line at the finest level, styled with a fill, a
\* stroke, circles, icons and labels.
NextRoles ==
  \/ \E o \in OlLayers :
       Construct(o, AsObject(StylePoints), Str("osm"), Undef, SpriteSheet, Undef, SpriteImage,
                 Undef)
  \/ \E o \in OlLayers : \E feature \in RoleFeatures : Call(o, feature, 2000)

SpecRoles == Init /\ [][NextRoles]_vars

\* The characters of the labels that are wrapped: two letters, the space
\* and an ideograph; the labels, of up to MaxTextLen characters; and the
\* values of text-max-width, 1 em and 2 em.
WrapAlphabet == {"a", "b", " ", "zhong"}
MaxTextLen == 4
Texts == UNION {[1..n -> WrapAlphabet] : n \in 1..MaxTextLen}
MaxWidths == {100, 200}

\* Labels wrapped by style functions of the document of points.
NextWrap ==
  \/ \E o \in OlLayers :
       Construct(o, AsObject(StylePoints), Str("osm"), Undef, SpriteSheet, Undef, SpriteImage,
                 Undef)
  \/ \E o \in OlLayers : \E text \in Texts : \E em \in MaxWidths :
       WrapText(o, text, mb2css("Sans", Num(1600)), em)

SpecWrap == Init /\ [][NextWrap]_vars

\* Points at the finest level, styled by two symbol layers with the same
\* icon.
NextIcons ==
  \/ \E o \in OlLayers :
       Construct(o, AsObject(StyleIcons), Str("osm"), Undef, SpriteSheet, Undef, SpriteImage,
                 Undef)
  \/ \E o \in OlLayers : \E feature \in PointFeatures : Call(o, feature, 2000)

SpecIcons == Init /\ [][NextIcons]_vars

\* Style functions of a document with a patterned fill and an icon, given
\* the sprite sheet's index and its image by URL, fetched, or not at all.
NextSprite ==
  \/ \E o \in OlLayers :
     \E spriteImageUrl \in {Undef, Str("sprite.png")} :
     \E spriteImage \in {Undef, SpritePrefetched} :
       Construct(o, AsObject(StyleSprite), Str("osm"), Undef, SpriteSheet, spriteImageUrl,
                 spriteImage, Undef)
  \/ \E o \in OlLayers : ImgOnload(o)
  \/ \E o \in OlLayers : OrphanOnload(o)
  \/ \E o \in OlLayers : \E feature \in SpriteFeatures : Call(o, feature, 2000)

SpecSprite == Init /\ [][NextSprite]_vars

\* Polygons and a line styled by fills with outlines of literal and of
\* data-driven color.
NextOutline ==
  \/ \E o \in OlLayers :
       Construct(o, AsObject(StyleOutline), Str("osm"), Undef, Undef, Undef, Undef, Undef)
  \/ \E o \in OlLayers : \E feature \in OutlineFeatures : \E resolution \in {400, 500} :
       Call(o, feature, resolution)

SpecOutline == Init /\ [][NextOutline]_vars

\* Polygons and a line styled by fills with fill-antialias absent, true and
\* false.
NextAntialias ==
  \/ \E o \in OlLayers :
       Construct(o, AsObject(StyleAntialias), Str("osm"), Undef, Undef, Undef, Undef, Undef)
  \/ \E o \in OlLayers : \E feature \in Features : \E resolution \in {400, 500} :
       Call(o, feature, resolution)

SpecAntialias == Init /\ [][NextAntialias]_vars

\* Two layers of one page: the first styled from a document, the second
\* from the document in which the layer "water" has another filter and
\* another color.
TwinDocument(o) == IF o = "layer" THEN StyleB ELSE StyleBEdited

NextTwins ==
  \/ \E o \in TwinLayers :
       Construct(o, AsObject(TwinDocument(o)), Str("osm"), Undef, Undef, Undef, Undef, Undef)
  \/ \E o \in TwinLayers : \E feature \in {PolygonW, PolygonX} :
       Call(o, feature, 400)

SpecTwins == Init /\ [][NextTwins]_vars

\* The characters of the templates: the braces and two letters; the
\* templates, of up to MaxTemplateLen characters; and the property bags,
\* with the properties n and m absent, a letter or a placeholder.
TemplateAlphabet == {"{", "}", "n", "m"}
MaxTemplateLen == 3
Templates == UNION {[1..k -> TemplateAlphabet] : k \in 1..MaxTemplateLen}
PropertyBags ==
  {<< >>,
   <<"n">> :> <<"m">>,
   <<"n">> :> <<"{", "n", "}">>,
   <<"n">> :> <<"{", "m", "}">>,
   (<<"n">> :> <<"{", "m", "}">>) @@ (<<"m">> :> <<"m">>),
   (<<"n">> :> <<"{", "m", "}">>) @@ (<<"m">> :> <<"{", "n", "}">>)}

\* Template substitutions, each run to its end before the next starts; the
\* loop, once entered, keeps taking steps.
NextTemplate ==
  \/ \E text \in Templates : \E properties \in PropertyBags :
       TemplateStart(text, properties)
  \/ TemplateLoop

SpecTemplate == Init /\ [][NextTemplate]_vars /\ WF_vars(TemplateLoop)

\* Layers selected by source name and by id list.
Selectors == {Str("osm"), Str("geo"), Arr(<<"water">>), Arr(<<"land", "water">>)}

NextSelect ==
  \/ \E o \in OlLayers : \E source \in Selectors :
       Construct(o, AsObject(StyleTwoSources), source, Undef, Undef, Undef, Undef, Undef)
  \/ \E o \in OlLayers : \E feature \in {PolygonW, LineGeo} :
       Call(o, feature, 400)

SpecSelect == Init /\ [][NextSelect]_vars

\* Documents with a malformed expression and a malformed filter.
NextMalformed ==
  \/ \E o \in OlLayers : \E doc \in {StyleBadColor, StyleBadFilter} :
       Construct(o, AsObject(doc), Str("osm"), Undef, Undef, Undef, Undef, Undef)
  \/ \E o \in OlLayers : \E feature \in {PolygonW, PolygonX} : \E resolution \in {400, 500} :
       Call(o, feature, resolution)

SpecMalformed == Init /\ [][NextMalformed]_vars

---------------------------------------------------------------------------
(* What the last call was made on, and what it gave.                      *)

\* The last operation was a call of the style function that returned.
Returned == lastOp.op = "call" /\ lastOp.thrown = Undef

\* The feature the last call was made on.
CalledFeature == CHOOSE feature \in AllFeatures : feature.id = lastOp.feature

\* The layers of the document the called style function was constructed
\* from, indexed from 0 as in the document.
CalledLayers == closure[lastOp.o].allLayers
LayerIndexes == 0..(Len(CalledLayers) - 1)
LayerAt(i) == CalledLayers[i + 1]

\* The positions, in the returned array, of the primitives layer i gave.
PositionsOf(i) == {k \in 1..Len(lastOp.emitted) : lastOp.emitted[k] = i}

\* A fill layer with a literal, visible fill-color, full opacity, and
\* neither fill-pattern nor fill-outline-color.
PlainFill(layer) ==
  /\ layer.type = "fill"
  /\ "paint" \in DOMAIN layer
  /\ "fill-color" \in DOMAIN layer.paint
  /\ layer.paint["fill-color"].t = "string"
  /\ layer.paint["fill-color"].s \in {"red", "blue"}
  /\ DOMAIN layer.paint \subseteq {"fill-color", "fill-antialias"}

\* The layer is a candidate for the called feature, in the zoom range, visible,
\* and its filter passes the feature.
Matches(layer) ==
  /\ "source-layer" \in DOMAIN layer
  /\ Lookup(CalledFeature.properties, "layer") = Str(layer["source-layer"])
  /\ Str(layer.source) = closure[lastOp.o].source
  /\ "minzoom" \in DOMAIN layer => layer.minzoom <= lastOp.zoom.n
  /\ "maxzoom" \in DOMAIN layer => lastOp.zoom.n < layer.maxzoom
  /\ "layout" \in DOMAIN layer => Lookup(layer.layout, "visibility") # Str("none")
  /\ "filter" \in DOMAIN layer =>
       /\ layer.filter.op = "=="
       /\ Lookup(CalledFeature.properties, layer.filter.key) = layer.filter.value

\* A returned primitive that is a fill and nothing else, at z-index i.
IsFillOnly(style, i) ==
  /\ style.fill # Null /\ style.stroke = Null /\ style.image = Null /\ style.text = Null
  /\ style.zIndex = Num(i)

\* A returned primitive that is a stroke and nothing else, at z-index i.
IsStrokeOnly(style, i) ==
  /\ style.stroke # Null /\ style.fill = Null /\ style.image = Null /\ style.text = Null
  /\ style.zIndex = Num(i)

\* C4: a polygon matched by a fill layer with a visible fill-color, no
\* fill-pattern and no fill-outline-color gets from that layer exactly one
\* primitive, a fill, when paint has no fill-antialias, and exactly two when
\* fill-antialias is true: the fill and then a stroke in the fill's color;
\* every one of them carries the layer's index as its z-index.
C4_FillAndAntialiasOutline ==
  Returned /\ CalledFeature.geometry.type = "Polygon" =>
    \A i \in LayerIndexes :
      PlainFill(LayerAt(i)) /\ Matches(LayerAt(i)) =>
        LET at == PositionsOf(i)
            first == CHOOSE k \in at : \A j \in at : k <= j
            styles == lastOp.returned.items
        IN IF "fill-antialias" \notin DOMAIN LayerAt(i).paint
           THEN /\ Cardinality(at) = 1
                /\ IsFillOnly(styles[first], i)
           ELSE LayerAt(i).paint["fill-antialias"] = Bool(TRUE) =>
                  /\ at = {first, first + 1}
                  /\ IsFillOnly(styles[first], i)
                  /\ IsStrokeOnly(styles[first + 1], i)
                  /\ styles[first + 1].stroke.color = styles[first].fill.color

\* C4's case: one polygon drew a plain fill from the layer at index 2 and a
\* fill with its outline from the fill-antialias layer at index 3.
C4_Witness ==
  /\ Returned
  /\ lastOp.feature = "polygonW"
  /\ PlainFill(LayerAt(2)) /\ "fill-antialias" \notin DOMAIN LayerAt(2).paint
  /\ PlainFill(LayerAt(3)) /\ "fill-antialias" \in DOMAIN LayerAt(3).paint
  /\ Cardinality(PositionsOf(2)) = 1
  /\ Cardinality(PositionsOf(3)) = 2

\* C5: a call repeated at once on the same feature and resolution, nothing
\* constructed or loaded in between, returns the primitives of the call
\* before it, every property of every one of them the same.
C5_RepeatedCallSameResult ==
  Returned /\ lastOp.again => lastOp.returned = lastOp.before

\* C5's case: a repeated call that returned primitives, among them a stroke
\* and a fill, on slots the call before it filled.
C5_Witness ==
  /\ Returned /\ lastOp.again
  /\ lastOp.returned # Undef
  /\ \E k \in 1..Len(lastOp.returned.items) : lastOp.returned.items[k].stroke # Null
  /\ \E k \in 1..Len(lastOp.returned.items) : lastOp.returned.items[k].fill # Null

\* What the last call returns when it is the first call of its style
\* function: the same call on an empty styles array.
AsFirstCall ==
  Bind([c \in {styleFunction(functionCache, filterCache, zoomObj, fontMap,
                     [closure[lastOp.o] EXCEPT !.styles = << >>], Undef,
                     CalledFeature, lastOp.resolution)} |->
    IF c.thrown = Undef /\ c.stylesLength > -1 THEN Arr(c.styles) ELSE Undef])

\* C6: whatever calls the style function served before, on whatever
\* features, a call returns primitives with the properties they have when the
\* call is the first one made.
C6_EarlierCallsLeaveNoTrace ==
  Returned => lastOp.returned = AsFirstCall

\* C10: a call returns undefined exactly when it emitted no primitive, and
\* else an array with one entry for each primitive it emitted, however many
\* entries earlier calls left in the array.
C10_UndefinedOrExactLength ==
  Returned =>
    /\ lastOp.returned = Undef <=> Len(lastOp.emitted) = 0
    /\ lastOp.returned # Undef => Len(lastOp.returned.items) = Len(lastOp.emitted)

\* C10's case: a call that emitted fewer primitives than the array held
\* from earlier calls, and returned as many as it emitted.
C10_Witness ==
  /\ Returned
  /\ lastOp.returned # Undef
  /\ Len(lastOp.returned.items) < lastOp.had

\* C10's other case: a feature whose sub-layer has no layer group, after
\* calls that left primitives in the array.
C10_WitnessNoGroup ==
  /\ Returned
  /\ lastOp.returned = Undef
  /\ lastOp.had > 0
  /\ "layer" \notin DOMAIN CalledFeature.properties

---------------------------------------------------------------------------
(* Construction.                                                           *)

\* C1: constructing from a document whose version is not 8 throws
\* "glStyle version 8 required." and does nothing else: no sprite image
\* starts loading, no cache entry is deleted, no style function is installed
\* and the layer is not tagged.
C1_VersionMismatchThrowsFirst ==
  [][(/\ lastOp'.op = "construct"
      /\ lastOp'.parsed
      /\ lastOp'.version \notin {Num(8), Str("8")}) =>
       /\ lastOp'.thrown = [t |-> "Error", message |-> "glStyle version 8 required."]
       /\ UNCHANGED <<functionCache, filterCache, zoomObj, closure, olLayer,
                      featureStyleIds>>]_vars

\* C1's case: a version 7 document with a sprite url was refused on a layer
\* that has a style function and cached evaluators of the document's layers.
C1_Witness ==
  /\ lastOp.op = "construct"
  /\ lastOp.version = Num(7)
  /\ lastOp.thrown # Undef
  /\ Truthy(lastOp.spriteImageUrl)
  /\ olLayer[lastOp.o].style # Null
  /\ ~closure[lastOp.o].loading
  /\ "land" \in DOMAIN functionCache
  /\ "water" \in DOMAIN filterCache

---------------------------------------------------------------------------
(* The zoom of a call.                                                     *)

\* C2: a layer gives a primitive to a call only if its visibility is not
\* "none" and the call's zoom z has minzoom <= z < maxzoom; a layer with
\* minzoom 5 and maxzoom 10 gives nothing at zoom 4 and nothing at zoom 10.
C2_OnlyVisibleLayersInZoomRange ==
  lastOp.op = "call" =>
    \A k \in 1..Len(lastOp.emitted) :
      LET layer == LayerAt(lastOp.emitted[k])
      IN /\ "layout" \in DOMAIN layer => Lookup(layer.layout, "visibility") # Str("none")
         /\ "minzoom" \in DOMAIN layer => layer.minzoom <= lastOp.zoom.n
         /\ "maxzoom" \in DOMAIN layer => lastOp.zoom.n < layer.maxzoom

\* C2's case: a call at zoom 10 that drew from another layer and nothing
\* from the layer with maxzoom 10, which had given a primitive before.
C2_Witness ==
  /\ Returned
  /\ lastOp.zoom = Num(10)
  /\ LayerAt(0).maxzoom = 10
  /\ Len(lastOp.emitted) > 0
  /\ PositionsOf(0) = {}
  /\ "road" \in DOMAIN functionCache

\* A line layer with a literal, visible line-color and a positive width.
VisibleLine(layer) ==
  /\ layer.type = "line"
  /\ "paint" \in DOMAIN layer
  /\ "line-color" \in DOMAIN layer.paint
  /\ layer.paint["line-color"] \in {Str("red"), Str("blue")}
  /\ "line-pattern" \notin DOMAIN layer.paint
  /\ "line-opacity" \notin DOMAIN layer.paint
  /\ "line-width" \in DOMAIN layer.paint => layer.paint["line-width"].n > 0

\* The call was made at a resolution that is none of the levels.
BetweenLevels ==
  \A i \in 1..Len(closure[lastOp.o].resolutions) :
    closure[lastOp.o].resolutions[i] # lastOp.resolution

\* The fractional zoom of the called resolution, in hundredths.
FractionalZoom == getZoomForResolution(lastOp.resolution, closure[lastOp.o].resolutions)

\* The layer is a candidate for the called feature, visible when in range,
\* with a filter that passes.
MatchesBesidesZoom(layer) ==
  /\ "source-layer" \in DOMAIN layer
  /\ Lookup(CalledFeature.properties, "layer") = Str(layer["source-layer"])
  /\ Str(layer.source) = closure[lastOp.o].source
  /\ "layout" \in DOMAIN layer => Lookup(layer.layout, "visibility") # Str("none")
  /\ "filter" \notin DOMAIN layer

\* C3 as stated: at a resolution between the levels the range test takes the
\* fractional zoom, so that a layer with minzoom 5 and maxzoom 10 gives a
\* primitive at zoom 9.99.
C3_RangeTestOnFractionalZoom ==
  Returned /\ BetweenLevels /\ CalledFeature.geometry.type # "Point" =>
    \A i \in LayerIndexes :
      LET layer == LayerAt(i)
      IN /\ VisibleLine(layer) /\ MatchesBesidesZoom(layer)
         /\ "minzoom" \in DOMAIN layer /\ "maxzoom" \in DOMAIN layer
         /\ 100 * layer.minzoom <= FractionalZoom
         /\ FractionalZoom < 100 * layer.maxzoom
         => PositionsOf(i) # {}

\* C3: at a resolution between the levels the range test takes the
\* fractional zoom rounded to the nearest integer, so that a layer with
\* minzoom 5 and maxzoom 10 gives nothing at zoom 9.99, which rounds to 10,
\* and a primitive from zoom 4.5 up to, and not including, zoom 9.5.
C3_RangeTestOnRoundedZoom ==
  Returned /\ BetweenLevels /\ CalledFeature.geometry.type # "Point" =>
    \A i \in LayerIndexes :
      LET layer == LayerAt(i)
          z == (FractionalZoom + 50) \div 100
      IN /\ VisibleLine(layer) /\ MatchesBesidesZoom(layer)
         /\ "minzoom" \in DOMAIN layer /\ "maxzoom" \in DOMAIN layer
         => /\ lastOp.zoom = Num(z)
            /\ PositionsOf(i) # {} <=> (layer.minzoom <= z /\ z < layer.maxzoom)

\* C3's case: a call at fractional zoom 9.99 that drew nothing from the
\* layer with minzoom 5 and maxzoom 10, and drew from another layer.
C3_Witness ==
  /\ Returned /\ BetweenLevels
  /\ FractionalZoom = 999
  /\ VisibleLine(LayerAt(0)) /\ MatchesBesidesZoom(LayerAt(0))
  /\ LayerAt(0).minzoom = 5 /\ LayerAt(0).maxzoom = 10
  /\ PositionsOf(0) = {}
  /\ Len(lastOp.emitted) > 0

---------------------------------------------------------------------------
(* The caches across constructions.                                        *)

\* The layer of the called style function's document with the given id.
CalledLayer(id) == CalledLayers[CHOOSE i \in 1..Len(CalledLayers) : CalledLayers[i].id = id]

\* C7: constructing a style function again from an edited document drops
\* every evaluator and filter predicate cached for the ids of the
\* document's layers, so that each call compiles them from the new
\* definitions: after the construction neither cache has an entry for any
\* of the ids, and whatever a call applies was compiled from the
\* definition its own document gives the layer.
C7_ReconstructionDropsCompiled ==
  /\ lastOp.op = "construct" /\ lastOp.thrown = Undef =>
       \A i \in 1..Len(closure[lastOp.o].allLayers) :
         closure[lastOp.o].allLayers[i].id \notin DOMAIN functionCache \cup DOMAIN filterCache
  /\ lastOp.op = "call" =>
       \A e \in lastOp.evals :
         IF e.key = "filter"
         THEN e.ev.filter = CalledLayer(e.id).filter
         ELSE e.ev = CompileProperty(CalledLayer(e.id), e.bag, e.key).value

\* C7's case: a call applied to a layer a filter that differs from the one
\* that was cached for the layer's id when the style function was
\* constructed.
C7_Witness ==
  /\ lastOp.op = "call"
  /\ \E e \in lastOp.evals :
       /\ e.key = "filter"
       /\ e.id \in DOMAIN closure[lastOp.o].dropped
       /\ closure[lastOp.o].dropped[e.id].filter # e.ev.filter
       /\ e.ev.filter = CalledLayer(e.id).filter

---------------------------------------------------------------------------
(* The layers a style function is constructed for.                         *)

\* The indexes, from 0, of the layers held in the groups of the style
\* function of o.
GroupedIndexes(o) ==
  LET groups == closure[o].layersBySourceLayer
  IN {groups[g][k].index : <<g, k>> \in
        {<<g, k>> \in (DOMAIN groups) \X (1..Len(closure[o].allLayers)) : k <= Len(groups[g])}}

\* C8: a source name selects exactly the layers of that source, a list of
\* ids exactly the layers with those ids; each selected layer is held once,
\* in the group of its source-layer, in document order, with its index in
\* the document.
C8_SelectionExact ==
  \A o \in OlLayers :
    closure[o] # Null =>
      LET all == closure[o].allLayers
          source == closure[o].source
          groups == closure[o].layersBySourceLayer
          Wanted(layer) == IF source.t = "string"
                           THEN layer.source = source.s
                           ELSE \E j \in 1..Len(source.items) : source.items[j] = layer.id
      IN /\ GroupedIndexes(o) = {i - 1 : i \in {i \in 1..Len(all) : Wanted(all[i])}}
         /\ \A g \in DOMAIN groups :
              /\ \A k \in 1..Len(groups[g]) :
                   /\ groups[g][k].layer = all[groups[g][k].index + 1]
                   /\ g = IF "source-layer" \in DOMAIN groups[g][k].layer
                          THEN groups[g][k].layer["source-layer"] ELSE "undefined"
              /\ \A k \in 1..(Len(groups[g]) - 1) :
                   groups[g][k].index < groups[g][k + 1].index

---------------------------------------------------------------------------
(* Malformed expressions and filters.                                      *)

\* The properties of a layer whose value is an expression that does not
\* compile, as <<"paint" or "layout", property>>.
MalformedProperties(layer) ==
  {bp \in {"paint", "layout"} \X
          {"fill-color", "fill-opacity", "fill-outline-color", "line-color", "line-width"} :
     /\ bp[1] \in DOMAIN layer
     /\ bp[2] \in DOMAIN layer[bp[1]]
     /\ isExpression(layer[bp[1]][bp[2]])
     /\ createPropertyExpression(layer[bp[1]][bp[2]],
                                 PropertySpec(bp[1], layer.type, bp[2])).result = "error"}

\* The layer's filter is one that does not compile.
MalformedFilter(layer) ==
  "filter" \in DOMAIN layer /\ layer.filter.op \notin {"==", "!="}

\* C9 as stated: a malformed expression or filter in a selected layer makes
\* the construction throw, and no call of a style function throws for it.
C9_MalformedThrowsAtConstruction ==
  /\ lastOp.op = "construct" /\ lastOp.thrown = Undef =>
       \A i \in GroupedIndexes(lastOp.o) :
         LET layer == closure[lastOp.o].allLayers[i + 1]
         IN MalformedProperties(layer) = {} /\ ~MalformedFilter(layer)
  /\ lastOp.op = "call" => lastOp.thrown = Undef

\* C9: a malformed expression or filter never makes the construction throw:
\* the style function is installed, and the error is thrown by each call
\* that comes to compile the expression or the filter; a call throws for
\* nothing else.
C9_MalformedThrowsAtFirstEvaluation ==
  /\ lastOp.op = "construct" /\ lastOp.parsed /\ lastOp.version = Num(8) =>
       /\ lastOp.thrown = Undef
       /\ olLayer[lastOp.o].style # Null
  /\ lastOp.op = "call" /\ lastOp.thrown # Undef =>
       LET layer == CalledLayer(lastOp.failed.id)
       IN /\ (layer.id = lastOp.failed.id)
          /\ IF lastOp.failed.key = "filter"
             THEN MalformedFilter(layer)
             ELSE \E bp \in MalformedProperties(layer) : bp[2] = lastOp.failed.key
  /\ lastOp.op = "call" /\ lastOp.zoom # Undef =>
       \A i \in GroupedIndexes(lastOp.o) :
         LET layer == LayerAt(i)
         IN /\ "source-layer" \in DOMAIN layer
            /\ Lookup(CalledFeature.properties, "layer") = Str(layer["source-layer"])
            /\ "minzoom" \notin DOMAIN layer /\ "maxzoom" \notin DOMAIN layer
            /\ "layout" \notin DOMAIN layer
            /\ \/ MalformedFilter(layer)
               \/ /\ "filter" \notin DOMAIN layer
                  /\ layer.type = "fill"
                  /\ CalledFeature.geometry.type = "Polygon"
                  /\ "fill-pattern" \notin DOMAIN layer.paint
                  /\ <<"paint", "fill-color">> \in MalformedProperties(layer)
            => lastOp.thrown # Undef

\* C9's case: a style function constructed from a document with a malformed
\* fill-color threw from a call, at the layer's fill-color, after the call
\* had drawn from the layers before it.
C9_Witness ==
  /\ lastOp.op = "call"
  /\ lastOp.thrown # Undef
  /\ lastOp.failed.key = "fill-color"
  /\ <<"paint", "fill-color">> \in MalformedProperties(CalledLayer(lastOp.failed.id))
  /\ Len(lastOp.emitted) > 0

---------------------------------------------------------------------------
(* Icons on lines.                                                         *)

\* The last call was made on a line.
CalledLine == CalledFeature.geometry.type \in {"LineString", "MultiLineString"}

\* The last call took an icon for layer i.
IconGiven(i) ==
  \E k \in 1..Len(lastOp.made) : lastOp.made[k].kind = "icon" /\ lastOp.made[k].index = i

\* Layer i has an icon-image, the called feature matches it, and the sprite
\* image and the sprite entry of the icon the feature names are there.
IconReady(i) ==
  /\ "icon-image" \in DOMAIN Layout(LayerAt(i))
  /\ Matches(LayerAt(i))
  /\ Truthy(closure[lastOp.o].spriteImage)
  /\ Truthy(closure[lastOp.o].spriteData)
  /\ "icon" \in DOMAIN CalledFeature.properties
  /\ CalledFeature.properties["icon"].s \in DOMAIN closure[lastOp.o].spriteData.icons

\* The squared diagonal of the called line's extent, and the squared length
\* of its longer side, against the square of 150 pixels at the call's
\* resolution; lengths in hundreds of map units.
ExtentSides ==
  <<(CalledFeature.geometry.extent[3] - CalledFeature.geometry.extent[1]) \div 100,
    (CalledFeature.geometry.extent[4] - CalledFeature.geometry.extent[2]) \div 100>>
PixelBound == (150 * ResolutionValue(lastOp.resolution)) \div 100
DiagonalOver150 ==
  ExtentSides[1] * ExtentSides[1] + ExtentSides[2] * ExtentSides[2] > PixelBound * PixelBound
LongerSideOver150 == ExtentSides[1] > PixelBound \/ ExtentSides[2] > PixelBound

---------------------------------------------------------------------------
(* C12: the font of a label and the list of available fonts.              *)

\* The list of available fonts the called style function was constructed
\* with.
AvailableFonts == closure[lastOp.o].fonts

\* The font the list of available fonts selects from a stack: the first
\* font of the stack that is in the list, else the last font of the stack.
FontByList(stack, available) ==
  LET found == {i \in 1..Len(stack) : \E j \in 1..Len(available) : available[j] = stack[i]}
  IN IF found = {}
     THEN stack[Len(stack)]
     ELSE stack[CHOOSE i \in found : \A j \in found : i <= j]

\* C12: when a list of available fonts was given at construction, the font
\* of every label of a call is the first font of the layer's text-font stack
\* that is in the list, or the last font of the stack when none is; when no
\* list was given it is the first font of the stack.
C12_FontFromAvailableList ==
  Returned =>
    \A k \in 1..Len(lastOp.fonts) :
      lastOp.fonts[k].font =
        IF AvailableFonts = Undef
        THEN lastOp.fonts[k].stack.items[1]
        ELSE FontByList(lastOp.fonts[k].stack.items, AvailableFonts.items)

\* C12, what the calls do: the font of every label is the first font of the
\* layer's text-font stack, whatever list was given at construction.
C12_FontIsFirstOfStack ==
  Returned =>
    \A k \in 1..Len(lastOp.fonts) :
      lastOp.fonts[k].font = lastOp.fonts[k].stack.items[1]

\* C12: a label is emitted by a style function constructed with a list of
\* available fonts that holds the second font of the layer's stack and not
\* the first.
C12_Witness ==
  /\ Returned
  /\ AvailableFonts # Undef
  /\ \E k \in 1..Len(lastOp.fonts) :
       /\ Len(lastOp.fonts[k].stack.items) = 2
       /\ FontByList(lastOp.fonts[k].stack.items, AvailableFonts.items)
            = lastOp.fonts[k].stack.items[2]
       /\ lastOp.fonts[k].stack.items[1] # lastOp.fonts[k].stack.items[2]

---------------------------------------------------------------------------
(* C13: the stroke of a circle.                                            *)

CalledPoint == CalledFeature.geometry.type \in {"Point", "MultiPoint"}

\* The circles the call emitted, as the places of lastOp.made.
CirclesMade == {m \in 1..Len(lastOp.made) : lastOp.made[m].kind = "circle"}

\* The circle-stroke-width the m-th emission resolved.
StrokeWidthOf(m) == lastOp.made[m].tuple[5]

\* The images the call returned for the layer of the m-th emission.
ImagesOf(m) == {lastOp.returned.items[k].image : k \in PositionsOf(lastOp.made[m].index)}

\* C13: for a point feature, every layer with circle-radius in paint that
\* matched yields a circle with a fill, and with no stroke when its
\* circle-stroke-width resolved to 0, else with a stroke of that width.
C13_CircleStrokeFollowsWidth ==
  (Returned /\ CalledPoint) =>
    \A m \in CirclesMade :
      /\ ImagesOf(m) # {}
      /\ \A image \in ImagesOf(m) :
           /\ image.t = "Circle"
           /\ image.fill # Null
           /\ image.radius = lastOp.made[m].tuple[1]
           /\ IF StrokeWidthOf(m) = Num(0)
              THEN image.stroke = Null
              ELSE image.stroke # Null /\ image.stroke.width = StrokeWidthOf(m)

\* C13: one call on a point returned a circle whose stroke width resolved to
\* 0 and a circle whose stroke width resolved to 2.
C13_Witness ==
  /\ Returned
  /\ CalledPoint
  /\ \E m \in CirclesMade : StrokeWidthOf(m) = Num(0)
  /\ \E m \in CirclesMade : StrokeWidthOf(m) = Num(200)

---------------------------------------------------------------------------
(* C14: line layers that draw nothing.                                     *)

CalledLineOrPolygon ==
  CalledFeature.geometry.type \in {"LineString", "MultiLineString", "Polygon", "MultiPolygon"}

\* The line layers of the called style function whose line-width is a
\* number not above 0, and those with line-pattern in paint.
WidthNotPositive(i) ==
  /\ LayerAt(i).type = "line"
  /\ Lookup(Paint(LayerAt(i)), "line-width") # Undef
  /\ Lookup(Paint(LayerAt(i)), "line-width").t = "number"
  /\ Lookup(Paint(LayerAt(i)), "line-width").n <= 0
Patterned(i) ==
  /\ LayerAt(i).type = "line"
  /\ "line-pattern" \in DOMAIN Paint(LayerAt(i))

\* C14: a line or polygon feature gets no primitive from a line layer whose
\* line-width is 0 or less, whatever its line-color and line-opacity, and
\* none from a line layer with line-pattern in paint.
C14_NoStrokeWithoutWidthOrWithPattern ==
  (Returned /\ CalledLineOrPolygon) =>
    \A i \in LayerIndexes :
      (WidthNotPositive(i) \/ Patterned(i)) => PositionsOf(i) = {}

\* C14: a call on a polygon returned the stroke of a line layer while line
\* layers of width 0 with a color and an opacity, of a negative width, and
\* with a pattern, a color and a positive width were among its layers.
C14_Witness ==
  /\ Returned
  /\ CalledFeature.geometry.type = "Polygon"
  /\ \E i \in LayerIndexes : LayerAt(i).type = "line" /\ PositionsOf(i) # {}
  /\ \E i \in LayerIndexes :
       /\ WidthNotPositive(i)
       /\ Lookup(Paint(LayerAt(i)), "line-width") = Num(0)
       /\ "line-color" \in DOMAIN Paint(LayerAt(i))
       /\ "line-opacity" \in DOMAIN Paint(LayerAt(i))
  /\ \E i \in LayerIndexes : WidthNotPositive(i) /\ Lookup(Paint(LayerAt(i)), "line-width").n < 0
  /\ \E i \in LayerIndexes :
       /\ Patterned(i)
       /\ "line-color" \in DOMAIN Paint(LayerAt(i))
       /\ Lookup(Paint(LayerAt(i)), "line-width").n > 0

---------------------------------------------------------------------------
(* C15, C16: the lines of a wrapped label.                                 *)

Wrapped == lastOp.op = "wrapText"

\* The lines of the wrapped label, the pixel budget in hundredths, and the
\* words of a text: its pieces between spaces that are not empty.
WrappedLines == IF lastOp.returned = << >> THEN << >> ELSE Split(lastOp.returned, "\n")
Budget == MeasureText(<<"M">>) * lastOp.em
Words(text) == SelectSeq(Split(text, " "), LAMBDA piece : piece # << >>)
Wide(word) == 100 * MeasureText(word) > Budget

\* C15: for every label without an ideograph, the lines of the wrapped
\* label joined with single spaces are the label, and every word wider than
\* the budget is a line of its own.
C15_LinesJoinedAreTheText ==
  (Wrapped /\ ~HasIdeograph(lastOp.text)) =>
    /\ Join(WrappedLines, " ") = lastOp.text
    /\ \A k \in 1..Len(Words(lastOp.text)) :
         Wide(Words(lastOp.text)[k]) =>
           \E l \in 1..Len(WrappedLines) : WrappedLines[l] = Words(lastOp.text)[k]

\* C15, amended: for every label without an ideograph, the words of the
\* lines of the wrapped label, in order, are the words of the label, every
\* word wider than the budget is a line of its own, and the lines joined
\* with single spaces are the label when no space of the label is leading,
\* trailing or doubled.
C15_WordsKeptWhole ==
  (Wrapped /\ ~HasIdeograph(lastOp.text)) =>
    /\ Words(Join(WrappedLines, " ")) = Words(lastOp.text)
    /\ \A l \in 1..Len(WrappedLines) : WrappedLines[l] # << >>
    /\ \A k \in 1..Len(Words(lastOp.text)) :
         Wide(Words(lastOp.text)[k]) =>
           \E l \in 1..Len(WrappedLines) : WrappedLines[l] = Words(lastOp.text)[k]
    /\ (\A k \in 1..Len(Split(lastOp.text, " ")) : Split(lastOp.text, " ")[k] # << >>)
         => Join(WrappedLines, " ") = lastOp.text

\* C15: a label of a word wider than the budget and a second word was
\* wrapped, on a miss of the cache, into two lines.
C15_Witness ==
  /\ Wrapped
  /\ ~lastOp.hit
  /\ ~HasIdeograph(lastOp.text)
  /\ Len(Split(lastOp.text, " ")) = 2
  /\ Wide(Split(lastOp.text, " ")[1])
  /\ Split(lastOp.text, " ")[2] # << >>
  /\ Len(WrappedLines) = 2

\* The lines the claim of C16 is about: those of more than one word, or,
\* in a label with an ideograph, of more than one character.
Crowded(line) ==
  IF HasIdeograph(lastOp.text) THEN Len(line) > 1 ELSE Len(Words(line)) > 1

\* C16: every line of a wrapped label that holds more than one word, or for
\* a label with an ideograph more than one character, is no wider than the
\* budget, the spaces that join its words included.
C16_CrowdedLinesWithinBudget ==
  Wrapped =>
    \A l \in 1..Len(WrappedLines) :
      Crowded(WrappedLines[l]) => 100 * MeasureText(WrappedLines[l]) <= Budget

\* C16, what wrapText keeps: a line of more than one word is within the
\* budget once its spaces are taken out of its last gap, and the lines of a
\* label with an ideograph are within the budget.
C16_CrowdedLinesWithinBudgetButForASpace ==
  Wrapped =>
    \A l \in 1..Len(WrappedLines) :
      Crowded(WrappedLines[l]) =>
        IF HasIdeograph(lastOp.text)
        THEN 100 * MeasureText(WrappedLines[l]) <= Budget
        ELSE 100 * (MeasureText(WrappedLines[l]) - CharWidth(" ")) <= Budget

---------------------------------------------------------------------------
(* C17, C18: the z-index of the primitives of a call.                      *)

\* The primitives a call returned, by place; the index of the layer a
\* primitive came from; and the two role classes: icons, circles and texts,
\* and fills and strokes.
Places == IF Returned /\ lastOp.returned # Undef THEN 1..Len(lastOp.returned.items) ELSE {}
PrimitiveAt(k) == lastOp.returned.items[k]
IndexAt(k) == lastOp.emitted[k]
IsSymbol(k) == Truthy(PrimitiveAt(k).image) \/ Truthy(PrimitiveAt(k).text)
IsFlat(k) == ~IsSymbol(k) /\ (PrimitiveAt(k).fill # Null \/ PrimitiveAt(k).stroke # Null)

\* C17: every fill or stroke returned has its layer's index in the document
\* as z-index, every icon, circle or text has 99999 minus that index, and so
\* each icon, circle or text of a returned array is strictly above each
\* fill or stroke of it.
C17_SymbolsAboveFillsAndStrokes ==
  /\ \A k \in Places :
       /\ IsSymbol(k) \/ IsFlat(k)
       /\ IsFlat(k) => PrimitiveAt(k).zIndex = Num(IndexAt(k))
       /\ IsSymbol(k) => PrimitiveAt(k).zIndex = Num(99999 - IndexAt(k))
  /\ \A k \in Places : \A l \in Places :
       (IsSymbol(k) /\ IsFlat(l)) => PrimitiveAt(k).zIndex.n > PrimitiveAt(l).zIndex.n

\* C17: a call returned a stroke, an icon and a text.
C17_Witness ==
  /\ \E k \in Places : IsFlat(k) /\ PrimitiveAt(k).stroke # Null /\ IndexAt(k) > 0
  /\ \E k \in Places : /\ Truthy(PrimitiveAt(k).image)
                        /\ PrimitiveAt(k).image.t = "Icon"
  /\ \E k \in Places : Truthy(PrimitiveAt(k).text)

\* A call returned a fill, a stroke and a text; a call returned a circle.
FillStrokeAndText ==
  /\ \E k \in Places : IsFlat(k) /\ PrimitiveAt(k).fill # Null
  /\ \E k \in Places : IsFlat(k) /\ PrimitiveAt(k).fill = Null
  /\ \E k \in Places : Truthy(PrimitiveAt(k).text)
CircleReturned ==
  \E k \in Places : Truthy(PrimitiveAt(k).image) /\ PrimitiveAt(k).image.t = "Circle"

\* Two primitives of one role class, the first from an earlier layer of the
\* document than the second.
SameClassInOrder(k, l) ==
  /\ IndexAt(k) < IndexAt(l)
  /\ (IsFlat(k) /\ IsFlat(l)) \/ (IsSymbol(k) /\ IsSymbol(l))

\* C18: of two primitives returned in one call that are both fills or
\* strokes, or both icons, circles or texts, the one of the later layer has
\* the higher z-index.
C18_LaterLayerOnTop ==
  \A k \in Places : \A l \in Places :
    SameClassInOrder(k, l) => PrimitiveAt(l).zIndex.n > PrimitiveAt(k).zIndex.n

\* C18, amended: of two fills or strokes returned in one call the one of the
\* later layer has the higher z-index, and of two icons, circles or texts
\* the one of the later layer has the lower z-index.
C18_LaterFlatOnTopLaterSymbolBelow ==
  \A k \in Places : \A l \in Places :
    SameClassInOrder(k, l) =>
      IF IsFlat(k)
      THEN PrimitiveAt(l).zIndex.n > PrimitiveAt(k).zIndex.n
      ELSE PrimitiveAt(l).zIndex.n < PrimitiveAt(k).zIndex.n

\* C18: a call returned a fill and a stroke of a later layer, and two texts
\* of different layers.
C18_Witness ==
  /\ \E k \in Places : \E l \in Places : SameClassInOrder(k, l) /\ IsFlat(k)
  /\ \E k \in Places : \E l \in Places : SameClassInOrder(k, l) /\ IsSymbol(k)

---------------------------------------------------------------------------
(* C19, C20: the cache of circles and composited icons.                    *)

\* C19: across the calls of one style function a circle is constructed at
\* most once for each tuple of radius, stroke color, fill color, opacity,
\* stroke width and stroke opacity: an emission whose tuple was constructed
\* by an earlier call, or earlier in the call, reuses the cached circle.
C19_CircleBuiltOncePerTuple ==
  Returned =>
    \A m \in CirclesMade :
      \/ lastOp.made[m].reused
      \/ /\ [kind |-> "circle", tuple |-> lastOp.made[m].tuple] \notin lastOp.built
         /\ \A n \in CirclesMade : n < m => lastOp.made[n].tuple # lastOp.made[m].tuple

\* C19, what the calls do: no emission of a circle reuses a cached object.
C19_CircleNeverReused ==
  Returned => \A m \in CirclesMade : ~lastOp.made[m].reused

\* A call emitted a circle whose tuple an earlier call of the same style
\* function had constructed.
C19_TupleSeenBefore ==
  /\ Returned
  /\ \E m \in CirclesMade : [kind |-> "circle", tuple |-> lastOp.made[m].tuple] \in lastOp.built

\* The icons the call emitted, as the places of lastOp.made, and the tuples
\* of the icons composited before the m-th emission: by earlier calls of
\* the style function, or earlier in the call.
IconsMade == {m \in 1..Len(lastOp.made) : lastOp.made[m].kind = "icon"}
CompositedBefore(m) ==
  {b.tuple : b \in {x \in lastOp.built : x.kind = "icon"}}
  \cup {lastOp.made[n].tuple : n \in {x \in IconsMade : x < m /\ ~lastOp.made[x].reused}}

\* C20: an icon emission takes a cached composited icon only if an icon of
\* an equal tuple of name, size, translate, translate anchor, anchor, offset
\* and color was composited before, and it does so whatever its rotation
\* and opacity.
C20_IconSharedOnlyForEqualTuples ==
  Returned =>
    \A m \in IconsMade :
      lastOp.made[m].reused <=> lastOp.made[m].tuple \in CompositedBefore(m)

\* C20, the part the calls keep: an icon of a tuple composited before is
\* taken from the cache, whatever its rotation and opacity.
C20_EqualTuplesShare ==
  Returned =>
    \A m \in IconsMade :
      lastOp.made[m].tuple \in CompositedBefore(m) => lastOp.made[m].reused

\* A call took from the cache an icon composited for another tuple.
C20_SharedAcrossTuples ==
  /\ Returned
  /\ \E m \in IconsMade :
       lastOp.made[m].reused /\ lastOp.made[m].tuple \notin CompositedBefore(m)

---------------------------------------------------------------------------
(* C21: the rotation and opacity of the icons of a call.                   *)

\* The value the call resolved for a property of the layer at index i.
ResolvedAt(i, property) ==
  LET e == CHOOSE e \in lastOp.evals : e.id = LayerAt(i).id /\ e.key = property
  IN ApplyEvaluator(e.ev, [zoom |-> e.zoom], e.feature)

\* The icon the k-th primitive of the call shows, as it is when the call
\* returns.
IconAt(k) == lastOp.icons[PrimitiveAt(k).image.ref]
ShowsIcon(k) == Truthy(PrimitiveAt(k).image) /\ PrimitiveAt(k).image.t = "Icon"

\* C21: every icon of a returned array has the rotation and the opacity its
\* own layer resolved, also when two layers of the call took the same
\* cached icon and resolved different rotations or opacities.
C21_IconCarriesOwnRotationAndOpacity ==
  \A k \in Places :
    ShowsIcon(k) =>
      /\ IconAt(k).rotation = IconRotation(ResolvedAt(IndexAt(k), "icon-rotate"),
                                           CalledFeature.properties)
      /\ IconAt(k).opacity = ResolvedAt(IndexAt(k), "icon-opacity")

\* C21, what the calls keep: every icon of a returned array has the rotation
\* and the opacity resolved by the last layer of the call that took the same
\* cached icon.
C21_IconCarriesLastRotationAndOpacity ==
  \A k \in Places :
    ShowsIcon(k) =>
      \E l \in Places :
        /\ ShowsIcon(l)
        /\ PrimitiveAt(l).image.ref = PrimitiveAt(k).image.ref
        /\ \A n \in Places :
             (ShowsIcon(n) /\ PrimitiveAt(n).image.ref = PrimitiveAt(k).image.ref) => n <= l
        /\ IconAt(k).rotation = IconRotation(ResolvedAt(IndexAt(l), "icon-rotate"),
                                             CalledFeature.properties)
        /\ IconAt(k).opacity = ResolvedAt(IndexAt(l), "icon-opacity")

\* A call returned two icons of one cache key whose layers resolved
\* different rotations.
C21_TwoLayersOneIcon ==
  \E k \in Places : \E l \in Places :
    /\ k < l /\ ShowsIcon(k) /\ ShowsIcon(l)
    /\ PrimitiveAt(k).image.ref = PrimitiveAt(l).image.ref
    /\ ResolvedAt(IndexAt(k), "icon-rotate") # ResolvedAt(IndexAt(l), "icon-rotate")

---------------------------------------------------------------------------
(* C22: template substitution.                                             *)

TemplateDone == lastOp.op = "fromTemplate" /\ lastOp.pc = "return"

\* C22: every template substitution, whatever the template and the
\* properties, comes to its end, with a text that holds no {name}
\* placeholder.
C22_SubstitutionTerminates ==
  TemplateRunning ~> (TemplateDone /\ ~HasPlaceholder(lastOp.text))

\* C22, what the loop keeps: a substitution that ends leaves no placeholder,
\* and a placeholder naming an absent property is replaced by nothing.
C22_NoPlaceholderAtTheEnd ==
  /\ TemplateDone => ~HasPlaceholder(lastOp.text)
  /\ [][(TemplateRunning /\ lastOp.pc = "replace"
         /\ lastOp.parts[2] \notin DOMAIN lastOp.properties)
        => lastOp'.text = lastOp.parts[1] \o lastOp.parts[3]]_vars

\* A substitution is back at a text it had before: the property a
\* placeholder names holds that placeholder.
C22_PlaceholderInItsOwnValue ==
  /\ TemplateRunning
  /\ lastOp.pc = "replace"
  /\ lastOp.parts[2] \in DOMAIN lastOp.properties
  /\ lastOp.properties[lastOp.parts[2]] = <<"{">> \o lastOp.parts[2] \o <<"}">>

---------------------------------------------------------------------------
(* C23: the sprite image, fetched by the style function or by its caller.  *)

\* The k-th primitive is a fill in a repeat pattern of the sprite.
ShowsPattern(k) ==
  /\ PrimitiveAt(k).fill # Null
  /\ PrimitiveAt(k).fill.color.t = "pattern"

\* The sprite entry layer i names for the called feature: the template of
\* its icon-image or fill-pattern, filled in from the feature's properties.
SpriteNameAt(i, bag, property) ==
  fromTemplate(LayerAt(i)[bag][property].s, CalledFeature.properties)

\* Layer i is a patterned fill, the feature a polygon, and the sheet has the
\* pattern; layer i is a symbol layer with an icon, the feature a point, and
\* the sheet has the icon.
PatternEligible(i) ==
  /\ LayerAt(i).type = "fill"
  /\ "fill-pattern" \in DOMAIN Paint(LayerAt(i))
  /\ CalledFeature.geometry.type = "Polygon"
  /\ SpriteNameAt(i, "paint", "fill-pattern") \in DOMAIN closure[lastOp.o].spriteData.icons
IconEligible(i) ==
  /\ LayerAt(i).type = "symbol"
  /\ "icon-image" \in DOMAIN Layout(LayerAt(i))
  /\ CalledFeature.geometry.type = "Point"
  /\ SpriteNameAt(i, "layout", "icon-image") \in DOMAIN closure[lastOp.o].spriteData.icons

\* The image of the called style function is still loading; it has been
\* loaded by the style function itself.
SpriteLoading == closure[lastOp.o].loading
SpriteLoaded == closure[lastOp.o].spriteImage = [t |-> "image"]

\* C23: a style function given a sprite URL and no image starts a load, and
\* one given an image starts none; every call before the load completes
\* returns no icon and no patterned fill; the completion of a load tells the
\* layer once that it changed; and every call after it returns the pattern
\* of each eligible fill layer and the icon of each eligible symbol layer
\* whose sprite entry exists.
C23_SpriteShowsOnceLoaded ==
  /\ (lastOp.op = "construct" /\ lastOp.thrown = Undef) =>
       (closure[lastOp.o].loading
          <=> (Truthy(lastOp.spriteImageUrl) /\ ~Truthy(lastOp.spriteImage)))
  /\ (lastOp.op = "onload") => lastOp.changed = 1
  /\ (Returned /\ SpriteLoading) =>
       \A k \in Places : ~ShowsIcon(k) /\ ~ShowsPattern(k)
  /\ (Returned /\ Truthy(closure[lastOp.o].spriteImage)) =>
       \A i \in LayerIndexes :
         /\ PatternEligible(i) => \E k \in PositionsOf(i) : ShowsPattern(k)
         /\ IconEligible(i) => \E k \in PositionsOf(i) : ShowsIcon(k)

\* C23 witness: a call of a style function that loaded its image returned an
\* icon or a patterned fill.
C23_WitnessShownAfterLoad ==
  /\ Returned
  /\ SpriteLoaded
  /\ \E i \in LayerIndexes : PatternEligible(i) \/ IconEligible(i)
  /\ \E k \in Places : ShowsIcon(k) \/ ShowsPattern(k)

---------------------------------------------------------------------------
(* C24: the shape of the styles in the array, call after call.             *)

\* The shapes of a style: a fill and nothing else, a stroke and nothing
\* else, or an image, a text or both with neither fill nor stroke.
FillShape(style) ==
  /\ style.fill # Null /\ style.stroke = Null
  /\ ~Truthy(style.image) /\ ~Truthy(style.text)
StrokeShape(style) ==
  /\ style.stroke # Null /\ style.fill = Null
  /\ ~Truthy(style.image) /\ ~Truthy(style.text)
SymbolShape(style) ==
  /\ Truthy(style.image) \/ Truthy(style.text)
  /\ style.fill = Null /\ style.stroke = Null
ShapesOf(style) ==
  {shape \in {"fill", "stroke", "symbol"} :
     CASE shape = "fill" -> FillShape(style)
       [] shape = "stroke" -> StrokeShape(style)
       [] shape = "symbol" -> SymbolShape(style)}

\* The styles the array of the installed style function holds, and the
\* array with style in its first slot when the layer loop comes to it.
StoredStyles ==
  UNION {{closure[o].styles[k] : k \in 1..Len(closure[o].styles)} :
           o \in {l \in OlLayers : closure[l] # Null}}
SlotHolding(style) == [styles |-> <<style>>, stylesLength |-> 0]

\* What a slot test leaves in a slot that held style: style itself, and then
\* style has the shape needed, or the fresh style of the test.
KeptOrFresh(style, after, fresh, shape) ==
  \/ CurrentStyle(after) = fresh
  \/ CurrentStyle(after) = style /\ shape \in ShapesOf(style)

\* C24: every style of a returned array has exactly one shape, and each of
\* the four slot tests, applied to any style an earlier call left in the
\* array, keeps that style only if it has the shape the emission needs and
\* else puts a fresh style in the slot.
C24_OneShapePerStyle ==
  /\ \A k \in Places : Cardinality(ShapesOf(PrimitiveAt(k))) = 1
  /\ \A style \in StoredStyles :
       /\ KeptOrFresh(style, FillSlot(SlotHolding(style)), NewStyle(NewFill, Null), "fill")
       /\ KeptOrFresh(style, StrokeSlot(SlotHolding(style)), NewStyle(Null, NewStroke), "stroke")
       /\ KeptOrFresh(style, ImageSlot(SlotHolding(style)), NewStyle(Null, Null), "symbol")
       /\ KeptOrFresh(style, TextSlot(SlotHolding(style)), NewStyle(Null, Null), "symbol")

\* C24 witness: a call returned an icon or a circle in a slot where the call
\* before it had left a fill or a stroke, and another style in a slot of the
\* shape it needed.
C24_WitnessSlotReplacedAndSlotKept ==
  /\ Returned
  /\ lastOp.before # Undef
  /\ \E k \in Places :
       /\ k <= Len(lastOp.before.items)
       /\ ShapesOf(PrimitiveAt(k)) = {"symbol"}
       /\ ShapesOf(lastOp.before.items[k]) \in {{"fill"}, {"stroke"}}
  /\ \E k \in Places :
       /\ k <= Len(lastOp.before.items)
       /\ ShapesOf(PrimitiveAt(k)) = ShapesOf(lastOp.before.items[k])

---------------------------------------------------------------------------
(* C25: two style functions of one page whose documents share a layer id.  *)

\* The evaluator or predicate e was compiled from the definition that the
\* document of the style function of o gives the layer of its id.
CompiledFor(e, o) ==
  \E i \in 1..Len(closure[o].allLayers) :
    /\ closure[o].allLayers[i].id = e.id
    /\ IF e.key = "filter"
       THEN e.ev.filter = closure[o].allLayers[i].filter
       ELSE e.ev = CompileProperty(closure[o].allLayers[i], e.bag, e.key).value

\* C25: whatever style functions were constructed and called before, on
\* this layer or on another, each call applies to a layer only evaluators
\* and a filter predicate compiled from the definition its own document
\* gives that layer.
C25_EachFunctionItsOwnEvaluators ==
  lastOp.op = "call" => \A e \in lastOp.evals : CompiledFor(e, lastOp.o)

\* What holds instead: whatever a call applies was compiled from the
\* definition one of the constructed style functions gives the layer's id.
C25_EvaluatorsOfSomeFunction ==
  lastOp.op = "call" =>
    \A e \in lastOp.evals : \E o \in TwinLayers : closure[o] # Null /\ CompiledFor(e, o)

\* The case of C25: a call of one style function applied a filter compiled
\* from the other's definition of the layer.
C25_AppliedTheOthersFilter ==
  /\ lastOp.op = "call"
  /\ \E e \in lastOp.evals :
       /\ e.key = "filter"
       /\ ~CompiledFor(e, lastOp.o)
       /\ \E o \in TwinLayers \ {lastOp.o} : closure[o] # Null /\ CompiledFor(e, o)

---------------------------------------------------------------------------
(* C26: the outline of a fill without fill-outline-color.                  *)

\* Layer i gave the called polygon a fill in its color, and after it an
\* outline in that color.
DrewFill(i) == \E k \in PositionsOf(i) : IsFillOnly(PrimitiveAt(k), i)
DrewOutline(i) ==
  \E k \in PositionsOf(i) :
    /\ k + 1 \in PositionsOf(i)
    /\ IsFillOnly(PrimitiveAt(k), i)
    /\ IsStrokeOnly(PrimitiveAt(k + 1), i)
    /\ PrimitiveAt(k + 1).stroke.color = PrimitiveAt(k).fill.color

\* paint sets fill-antialias and does not set it to false.
AntialiasEnabled(layer) ==
  /\ "fill-antialias" \in DOMAIN layer.paint
  /\ layer.paint["fill-antialias"] # Bool(FALSE)

\* C26: a matched fill layer of plain color without fill-outline-color gives
\* a polygon its fill, and the outline in the fill's color exactly when its
\* fill-antialias is enabled: with fill-antialias: false the fill only.
C26_OutlineIffAntialiasEnabled ==
  Returned /\ CalledFeature.geometry.type = "Polygon" =>
    \A i \in LayerIndexes :
      PlainFill(LayerAt(i)) /\ Matches(LayerAt(i)) =>
        /\ DrewFill(i)
        /\ DrewOutline(i) <=> AntialiasEnabled(LayerAt(i))

\* What holds instead: the outline is drawn exactly when paint has the key
\* fill-antialias, whatever its value.
C26_OutlineIffAntialiasInPaint ==
  Returned /\ CalledFeature.geometry.type = "Polygon" =>
    \A i \in LayerIndexes :
      PlainFill(LayerAt(i)) /\ Matches(LayerAt(i)) =>
        /\ DrewFill(i)
        /\ DrewOutline(i) <=> "fill-antialias" \in DOMAIN LayerAt(i).paint

\* The case of C26: a polygon got the fill and the outline of a layer whose
\* paint has fill-antialias: false.
C26_OutlineDespiteAntialiasFalse ==
  /\ Returned
  /\ \E i \in LayerIndexes :
       /\ PlainFill(LayerAt(i)) /\ Matches(LayerAt(i))
       /\ Lookup(LayerAt(i).paint, "fill-antialias") = Bool(FALSE)
       /\ DrewOutline(i)

---------------------------------------------------------------------------
(* C27: what the evaluators and filters of one call are applied to.        *)

\* The view of the called feature: its properties and its type code.
CalledView ==
  [properties |-> CalledFeature.properties, type |-> types(CalledFeature.geometry.type)]

\* C27: every evaluator and every filter predicate a call applies is
\* applied to the view of the called feature, properties and type code 1, 2
\* or 3, and to the zoom resolved for the call, fill-outline-color as every
\* other property.
C27_SameViewAndZoomForAll ==
  lastOp.op = "call" =>
    \A e \in lastOp.evals :
      /\ e.feature = CalledView
      /\ CalledView.type \in 1..3
      /\ Num(e.zoom) = lastOp.zoom

\* What holds instead: the evaluator of fill-outline-color is applied to
\* the bare properties of the feature, and every other evaluator and every
\* filter to the view; all of them to the zoom of the call.
C27_ViewForAllButOutlineColor ==
  lastOp.op = "call" =>
    \A e \in lastOp.evals :
      /\ e.feature = IF e.key = "fill-outline-color"
                     THEN CalledFeature.properties ELSE CalledView
      /\ CalledView.type \in 1..3
      /\ Num(e.zoom) = lastOp.zoom

\* The case of C27: a polygon that names the color of its outline got the
\* fill of the layer that draws the outline in the named color, and no
\* outline from it.
C27_NamedOutlineNotDrawn ==
  /\ Returned
  /\ "edge" \in DOMAIN CalledFeature.properties
  /\ \E e \in lastOp.evals : e.key = "fill-outline-color" /\ e.ev.kind # "constant"
  /\ \E i \in LayerIndexes :
       /\ LayerAt(i).id = "edge"
       /\ \E k \in PositionsOf(i) : IsFillOnly(PrimitiveAt(k), i)
       /\ \A k \in PositionsOf(i) : ~IsStrokeOnly(PrimitiveAt(k), i)

---------------------------------------------------------------------------
(* C28: feature.styleIds, the ids of the layers that styled a feature.     *)

\* The zooms feature x has a bucket for, and the ids in the bucket of a zoom.
BucketsOf(ids, x) == IF Truthy(ids[x]) THEN DOMAIN ids[x].ids ELSE {}
BucketIds(ids, x, zoom) == {ids[x].ids[zoom][k] : k \in 1..Len(ids[x].ids[zoom])}

\* No id is twice in a bucket, and the bucket of the last call's feature and
\* zoom has the id of every layer that emitted a primitive in the call.
BucketsExact ==
  /\ \A x \in DOMAIN featureStyleIds : \A zoom \in BucketsOf(featureStyleIds, x) :
       Cardinality(BucketIds(featureStyleIds, x, zoom)) = Len(featureStyleIds[x].ids[zoom])
  /\ lastOp.op = "call" =>
       \A k \in 1..Len(lastOp.emitted) :
         /\ lastOp.zoom.n \in BucketsOf(featureStyleIds, lastOp.feature)
         /\ LayerAt(lastOp.emitted[k]).id
              \in BucketIds(featureStyleIds, lastOp.feature, lastOp.zoom.n)

\* No step takes a bucket or an id away from a feature.
BucketsKept ==
  \A x \in DOMAIN featureStyleIds : \A zoom \in BucketsOf(featureStyleIds, x) :
    /\ zoom \in BucketsOf(featureStyleIds', x)
    /\ BucketIds(featureStyleIds, x, zoom) \subseteq BucketIds(featureStyleIds', x, zoom)

\* C28: after any calls on a feature, no bucket of its styleIds has a layer
\* id twice, and the bucket of a zoom has the id of every layer that emitted
\* a primitive for the feature at that zoom, in the last call or in any call
\* before it, also when a layer emitted a fill and its outline or the call
\* was repeated.
C28_BucketsHaveEachEmitterOnce ==
  [] BucketsExact /\ [][BucketsKept]_vars

\* C28 witness: a repeated call in which a layer emitted two primitives left
\* the layer's id once in a bucket of two ids or more.
C28_WitnessRepeatedCallTwoPrimitives ==
  /\ Returned /\ lastOp.again
  /\ \E i \in LayerIndexes :
       /\ Cardinality(PositionsOf(i)) = 2
       /\ LayerAt(i).id \in BucketIds(featureStyleIds, lastOp.feature, lastOp.zoom.n)
  /\ Len(featureStyleIds[lastOp.feature].ids[lastOp.zoom.n]) >= 2
  /\ BucketsExact

=============================================================================
